---------------------------- MODULE Spec2Model ----------------------------
(***************************************************************************)
(* SeaLevelViewer: the moisture transport search                           *)
(* (computeMoistureAvailabilityDijkstra.ts) and the world pipeline of the  *)
(* recolor layer (RecolorGridLayer.ts).                                    *)
(*                                                                         *)
(* Numbers.  The program computes in IEEE doubles.  The model computes in  *)
(* fixed point: costs, penalties and multipliers in thousandths (Scale),   *)
(* source strengths and moisture in millionths (Micro), distances in       *)
(* tenths of a kilometre.  +Infinity is the integer Infinity, larger than  *)
(* every finite cost the bounded inputs can produce.                       *)
(*                                                                         *)
(* Arrays.  A typed array of length n is a function on 0..n-1.  The heap's *)
(* two JavaScript arrays are sequences; index i of the code is i+1 here.   *)
(***************************************************************************)
EXTENDS Integers, Sequences, FiniteSets, TLC

\* ------------------------------------------------------------------ bounds
\* Largest number of cells of a raster handed to the search.
MaxCells == 4
\* Cells of the z = 0 raster the layer loads.
MaxWorldCells == 2
\* Callbacks registered and not yet run.
MaxPending == 2
\* Tile canvases created.
MaxTiles == 1
\* Entries of a MinHeapPair driven by arbitrary pushes and pops.
MaxHeap == 4

\* ------------------------------------------------------- numeric encoding
\* One unit of cost is 1/Scale (Float64Array cost, line 113).
Scale == 1000
\* One unit of source strength and of moisture is 1/Micro (Float32Array).
Micro == 1000000
\* Float64 +Infinity (cost[i] = Infinity).
Infinity == 1000000000

\* `x ?? d` on an optional parameter: <<>> is undefined, <<x>> is x.
None == <<>>
Some(x) == <<x>>
OrDefault(o, d) == IF o = None THEN d ELSE o[1]

\* Where a value is computed once and used several times (a `const` of the
\* source), the model writes  CHOOSE r \in {e : x \in {v}} : TRUE  for
\* `const x = v; e`.

Min2(a, b) == IF a <= b THEN a ELSE b
Max2(a, b) == IF a >= b THEN a ELSE b

\* -Math.log(s) for a strength s in 1..Micro (millionths), in thousandths.
\* ln 2 = 0.693; on [1/2, 1] the series 2(z + z^3/3 + z^5/5), z = (1-s)/(1+s).
RECURSIVE NegLog(_)
NegLog(s) ==
    IF s >= Micro THEN 0
    ELSE IF 2 * s < Micro THEN 693 + NegLog(2 * s)
    ELSE LET z  == ((Micro - s) * Scale) \div (Micro + s)
             z2 == (z * z) \div Scale
             z3 == (z2 * z) \div Scale
             z5 == (z3 * z2) \div Scale
         IN  2 * (z + z3 \div 3 + z5 \div 5)

\* Math.exp(-c) stored to a Float32Array cell: zero once exp(-c) is below
\* half the smallest float32 subnormal (c > 150 ln 2 = 103.972).
F32ExpUnderflow == 103972

RECURSIVE Halve(_, _)
Halve(x, k) == IF k = 0 \/ x = 0 THEN x ELSE Halve(x \div 2, k - 1)

\* exp(-c), c in thousandths, result in millionths: c = k ln 2 + r, the
\* series of exp(-r) to the sixth power, halved k times.  A positive result
\* smaller than one millionth is kept positive (1).
ExpNeg(c) ==
    LET k  == c \div 693
        r  == c % 693
        t2 == (r * r) \div 2
        t3 == (t2 * r) \div (3 * Scale)
        t4 == (t3 * r) \div (4 * Scale)
        t5 == (t4 * r) \div (5 * Scale)
        t6 == (t5 * r) \div (6 * Scale)
        e  == Micro - Scale * r + t2 - t3 + t4 - t5 + t6
    IN  Max2(1, Min2(Micro, Halve(e, k)))

\* Math.exp(-c) stored to a Float32Array cell
ExpNegF32(c) == IF c > F32ExpUnderflow THEN 0 ELSE ExpNeg(c)

\* ------------------------------------------- computeMoistureAvailabilityDijkstra.ts
clampNonNeg(x) == IF x < 0 THEN 0 ELSE x

\* Mutant: the multiplier is used as the callback returns it.
clampAtLeast1_Unclamped(x) == x

clampAtLeast1(x) == IF x < Scale THEN Scale ELSE x

\* const eps = 1e-6 (millionths)
eps == 1

IsFinite(x) == x # Infinity /\ x # -Infinity

clampSourceStrength(x, e) ==
    IF ~IsFinite(x) \/ x <= e THEN e
    ELSE IF x >= Micro THEN Micro
    ELSE x

\* ---- class MinHeapPair: [nodes |-> Seq, keys |-> Seq]
EmptyHeap == [nodes |-> <<>>, keys |-> <<>>]

size(h) == Len(h.nodes)

RECURSIVE siftUp(_, _, _, _)
siftUp(h, i, node, key) ==
    IF i > 0
    THEN LET p == (i - 1) \div 2 IN
         IF h.keys[p + 1] <= key THEN h
         ELSE siftUp([nodes |-> [h.nodes EXCEPT ![i + 1] = h.nodes[p + 1],
                                                ![p + 1] = node],
                      keys  |-> [h.keys EXCEPT ![i + 1] = h.keys[p + 1],
                                               ![p + 1] = key]],
                     p, node, key)
    ELSE h

\* Mutant: the sift-up loop of lines 37-46 left out.
push_NoSiftUp(h, node, key) ==
    [nodes |-> Append(h.nodes, node), keys |-> Append(h.keys, key)]

push(h, node, key) ==
    siftUp([nodes |-> Append(h.nodes, node), keys |-> Append(h.keys, key)],
           Len(h.nodes), node, key)

RECURSIVE siftDown(_, _)
siftDown(h, i) ==
    LET l == i * 2 + 1
        r == l + 1
        n == Len(h.nodes)
    IN  IF l >= n THEN h
        ELSE LET m == IF r < n /\ h.keys[r + 1] < h.keys[l + 1] THEN r ELSE l IN
             IF h.keys[i + 1] <= h.keys[m + 1] THEN h
             ELSE siftDown([nodes |-> [h.nodes EXCEPT ![i + 1] = h.nodes[m + 1],
                                                      ![m + 1] = h.nodes[i + 1]],
                            keys  |-> [h.keys EXCEPT ![i + 1] = h.keys[m + 1],
                                                     ![m + 1] = h.keys[i + 1]]],
                           m)

\* pop(): [isNull, node, key, heap]; heap is the heap after the call.
pop(h) ==
    LET n == Len(h.nodes) IN
    IF n = 0 THEN [isNull |-> TRUE, node |-> -1, key |-> 0, heap |-> h]
    ELSE LET lastNode == h.nodes[n]
             lastKey  == h.keys[n]
             cut == [nodes |-> SubSeq(h.nodes, 1, n - 1),
                     keys  |-> SubSeq(h.keys, 1, n - 1)]
             rest == IF n > 1
                     THEN siftDown([nodes |-> [cut.nodes EXCEPT ![1] = lastNode],
                                    keys  |-> [cut.keys EXCEPT ![1] = lastKey]], 0)
                     ELSE cut
         IN  [isNull |-> FALSE, node |-> h.nodes[1], key |-> h.keys[1],
              heap |-> rest]

\* ---- parameters (lines 97-108); distances in tenths of a kilometre
DefaultPixelKm == 500
DefaultL0Km == 30000
\* const oceanStepCost = 0.001
oceanStepCost == 1

\* const safeL0 = L0Km > 0 ? L0Km : 1   (1 km = 10 tenths)
safeL0(params) ==
    LET L0Km == OrDefault(params.L0Km, DefaultL0Km) IN
    IF L0Km > 0 THEN L0Km ELSE 10

\* Mutant: the ratio inverted, safeL0 / pixelKm.
baselineLandStep_Inverted(params) ==
    ((safeL0(params) * Scale) \div OrDefault(params.pixelKm, DefaultPixelKm))
        * OrDefault(params.landBaseMultiplier, 1)

\* const baselineLandStep = (pixelKm / safeL0) * landBaseMultiplier
baselineLandStep(params) ==
    ((OrDefault(params.pixelKm, DefaultPixelKm) * Scale) \div safeL0(params))
        * OrDefault(params.landBaseMultiplier, 1)

\* stepCostTo(u, v, dir) (lines 133-142).  params.continentalPenalty is never
\* read by the function.
stepCostTo(isLand, params, u, v, dir) ==
    LET isOcean == isLand[v] = 0
        c0 == IF isOcean THEN oceanStepCost ELSE baselineLandStep(params)
        c1 == IF params.coldMultiplier # None
              THEN (c0 * clampAtLeast1(params.coldMultiplier[1][v])) \div Scale
              ELSE c0
        c2 == IF params.elevationPenalty # None
              THEN c1 + clampNonNeg(params.elevationPenalty[1][<<u, v, dir>>])
              ELSE c1
        c3 == IF params.directionPenalty # None
              THEN c2 + clampNonNeg(params.directionPenalty[1][<<u, v, dir>>])
              ELSE c2
    IN  IF c3 < 0 THEN 0 ELSE c3

\* Mutant: the fill loops of lines 114 and 118 left out (typed arrays are
\* zero-filled).
Allocate_NoFill(N) ==
    [cost |-> [i \in 0..(N - 1) |-> 0],
     prev |-> [i \in 0..(N - 1) |-> 0],
     src  |-> [i \in 0..(N - 1) |-> 0],
     heap |-> EmptyHeap]

\* ---- the search state: [cost, prev, src, heap]
\* lines 112-120: cost = Infinity, prev = src = -1, empty heap
Allocate(N) ==
    [cost |-> [i \in 0..(N - 1) |-> Infinity],
     prev |-> [i \in 0..(N - 1) |-> -1],
     src  |-> [i \in 0..(N - 1) |-> -1],
     heap |-> EmptyHeap]

\* lines 123-131: cells p..N-1 of the multi-source init loop
RECURSIVE SeedFrom(_, _, _, _, _)
SeedFrom(st0, isLand, sourceStrength, N, p) ==
    CHOOSE r \in {
      IF p >= N THEN st
      ELSE IF isLand[p] # 0 THEN SeedFrom(st, isLand, sourceStrength, N, p + 1)
      ELSE LET s  == clampSourceStrength(sourceStrength[p], eps)
               c0 == NegLog(s)
           IN  SeedFrom([cost |-> [st.cost EXCEPT ![p] = c0],
                         prev |-> [st.prev EXCEPT ![p] = -1],
                         src  |-> [st.src EXCEPT ![p] = p],
                         heap |-> push(st.heap, p, c0)],
                        isLand, sourceStrength, N, p + 1)
      : st \in {st0} } : TRUE

\* Mutant: the relaxation updates the cost and pushes, but leaves prev and
\* src as they were.
relax_NoPrev(st, isLand, params, u, cu, v, dir) ==
    LET nv == cu + stepCostTo(isLand, params, u, v, dir) IN
    IF nv < st.cost[v]
    THEN [cost |-> [st.cost EXCEPT ![v] = nv],
          prev |-> st.prev,
          src  |-> st.src,
          heap |-> push(st.heap, v, nv)]
    ELSE st

\* Mutant: the relaxed cell takes the popped cell as its source.
relax_SourceIsPredecessor(st, isLand, params, u, cu, v, dir) ==
    LET nv == cu + stepCostTo(isLand, params, u, v, dir) IN
    IF nv < st.cost[v]
    THEN [cost |-> [st.cost EXCEPT ![v] = nv],
          prev |-> [st.prev EXCEPT ![v] = u],
          src  |-> [st.src EXCEPT ![v] = u],
          heap |-> push(st.heap, v, nv)]
    ELSE st

\* Mutant: a neighbour is pushed again when its cost does not rise.
relax_NonStrict(st, isLand, params, u, cu, v, dir) ==
    LET nv == cu + stepCostTo(isLand, params, u, v, dir) IN
    IF nv <= st.cost[v]
    THEN [cost |-> [st.cost EXCEPT ![v] = nv],
          prev |-> [st.prev EXCEPT ![v] = u],
          src  |-> [st.src EXCEPT ![v] = st.src[u]],
          heap |-> push(st.heap, v, nv)]
    ELSE st

\* one neighbour block of the loop (lines 157-164 and its three copies)
relax(st, isLand, params, u, cu, v, dir) ==
    LET nv == cu + stepCostTo(isLand, params, u, v, dir) IN
    IF nv < st.cost[v]
    THEN [cost |-> [st.cost EXCEPT ![v] = nv],
          prev |-> [st.prev EXCEPT ![v] = u],
          src  |-> [st.src EXCEPT ![v] = st.src[u]],
          heap |-> push(st.heap, v, nv)]
    ELSE st

\* Mutant: no popped entry is skipped.
isStale_Never(st, u, cu) == FALSE

\* if (cu > cost[u]) continue (line 150)
isStale(st, u, cu) == cu > st.cost[u]

\* Mutant: the east bound test written u + 1 < width * height.
LoopBody_EastWraps(st, isLand, params, width, height) ==
    CHOOSE r \in {
      LET u  == it.node
          cu == it.key
          x  == u % width
          y  == u \div width
          s0 == [st EXCEPT !.heap = it.heap]
      IN  IF isStale(st, u, cu) THEN s0
          ELSE CHOOSE rN \in {
                 IF y - 1 >= 0
                 THEN relax(sS, isLand, params, u, cu, u - width, 3) ELSE sS
                 : sS \in { CHOOSE rS \in {
                 IF y + 1 < height
                 THEN relax(sW, isLand, params, u, cu, u + width, 2) ELSE sW
                 : sW \in { CHOOSE rW \in {
                 IF x - 1 >= 0
                 THEN relax(sE, isLand, params, u, cu, u - 1, 1) ELSE sE
                 : sE \in {
                 IF u + 1 < width * height
                 THEN relax(s0, isLand, params, u, cu, u + 1, 0) ELSE s0
                 } } : TRUE } } : TRUE } } : TRUE
      : it \in {pop(st.heap)} } : TRUE

\* Mutant: the west bound test written x - 1 > 0.
LoopBody_WestOffByOne(st, isLand, params, width, height) ==
    CHOOSE r \in {
      LET u  == it.node
          cu == it.key
          x  == u % width
          y  == u \div width
          s0 == [st EXCEPT !.heap = it.heap]
      IN  IF isStale(st, u, cu) THEN s0
          ELSE CHOOSE rN \in {
                 IF y - 1 >= 0
                 THEN relax(sS, isLand, params, u, cu, u - width, 3) ELSE sS
                 : sS \in { CHOOSE rS \in {
                 IF y + 1 < height
                 THEN relax(sW, isLand, params, u, cu, u + width, 2) ELSE sW
                 : sW \in { CHOOSE rW \in {
                 IF x - 1 > 0
                 THEN relax(sE, isLand, params, u, cu, u - 1, 1) ELSE sE
                 : sE \in {
                 IF x + 1 < width
                 THEN relax(s0, isLand, params, u, cu, u + 1, 0) ELSE s0
                 } } : TRUE } } : TRUE } } : TRUE
      : it \in {pop(st.heap)} } : TRUE

\* one iteration of while (heap.size() > 0) (lines 145-198)
LoopBody(st, isLand, params, width, height) ==
    CHOOSE r \in {
      LET u  == it.node
          cu == it.key
          x  == u % width
          y  == u \div width
          s0 == [st EXCEPT !.heap = it.heap]
      IN  IF isStale(st, u, cu) THEN s0
          ELSE CHOOSE rN \in {
                 IF y - 1 >= 0
                 THEN relax(sS, isLand, params, u, cu, u - width, 3) ELSE sS
                 : sS \in { CHOOSE rS \in {
                 IF y + 1 < height
                 THEN relax(sW, isLand, params, u, cu, u + width, 2) ELSE sW
                 : sW \in { CHOOSE rW \in {
                 IF x - 1 >= 0
                 THEN relax(sE, isLand, params, u, cu, u - 1, 1) ELSE sE
                 : sE \in {
                 IF x + 1 < width
                 THEN relax(s0, isLand, params, u, cu, u + 1, 0) ELSE s0
                 } } : TRUE } } : TRUE } } : TRUE
      : it \in {pop(st.heap)} } : TRUE

RECURSIVE RunLoop(_, _, _, _, _)
RunLoop(st0, isLand, params, width, height) ==
    CHOOSE r \in {
      IF size(st.heap) > 0
      THEN RunLoop(LoopBody(st, isLand, params, width, height),
                   isLand, params, width, height)
      ELSE st
      : st \in {st0} } : TRUE

\* lines 201-205
MoistureOf(cost) ==
    [p \in DOMAIN cost |-> IF IsFinite(cost[p]) THEN ExpNegF32(cost[p]) ELSE 0]

\* lines 93-95: the two length checks that throw
LengthsOk(isLand, sourceStrength, width, height) ==
    /\ Cardinality(DOMAIN isLand) = width * height
    /\ Cardinality(DOMAIN sourceStrength) = width * height

\* the whole function: { moisture, src, prev, cost }
computeMoistureAvailabilityDijkstra(isLand, sourceStrength, width, height, params) ==
    LET N == width * height IN
    CHOOSE r \in {
      [moisture |-> MoistureOf(st.cost), src |-> st.src, prev |-> st.prev,
       cost |-> st.cost]
      : st \in {RunLoop(SeedFrom(Allocate(N), isLand, sourceStrength, N, 0),
                        isLand, params, width, height)} } : TRUE

\* Callbacks of the search, as tables over their arguments (u, v, dir).
Dir4 == 0..3
StepArgs(N) == (0..(N - 1)) \X (0..(N - 1)) \X Dir4

\* ------------------------------------------------------ RecolorGridLayer.ts
\* Units of the layer: elevations and sea levels are 0..255; iceLevel,
\* seaLevelDropDueToIce, moistureScale, continentalScale and the exponents
\* are in hundredths; effectiveSeaLevel is in 1/E4; temperatures, sines,
\* cosines and the 0..1 fractions are in thousandths (Scale); moisture,
\* accumulation, ice and melt are in millionths (Micro).
E4 == 10000
Hundred == 100

\* const clamp01 = (v) => (v < 0 ? 0 : v > 1 ? 1 : v), on thousandths
clamp01(v) == IF v < 0 THEN 0 ELSE IF v > Scale THEN Scale ELSE v

\* Math.pow(x, e) for x in thousandths of [0, 1] and e > 0 in hundredths
Pow(x, e) ==
    IF x <= 0 THEN 0
    ELSE IF x >= Scale THEN Scale
    ELSE ExpNeg((e * NegLog(x * Scale)) \div Hundred) \div Scale

\* clamp01(num / den) of two doubles with num > 0: a zero denominator gives
\* +Infinity, which clamp01 maps to 1; a negative one gives a negative
\* quotient, which it maps to 0.
clamp01Quotient(num, den) ==
    IF den = 0 THEN Scale
    ELSE IF den < 0 THEN 0
    ELSE clamp01((num * Scale) \div den)

\* Math.PI in thousandths
Pi == 3142

\* _worldYToLatDeg_webMercator(worldY, worldHeight): latRad =
\* atan(sinh(mercY)) with mercY = PI (1 - 2 (worldY + 0.5) / worldHeight).
\* The model keeps |lat| by its sine tanh|mercY| and cosine 1/cosh|mercY|.
worldYToLat_webMercator(worldY, worldHeight) ==
    LET d  == worldHeight - 2 * worldY - 1
        m  == (Pi * (IF d < 0 THEN -d ELSE d)) \div worldHeight
        e1 == ExpNeg(m)
        e2 == ExpNeg(2 * m)
    IN  [sin |-> ((Micro - e2) * Scale) \div (Micro + e2),
         cos |-> (e1 * Scale) \div ((Micro + e2) \div 2)]

\* |lat| < 30 degrees and |lat| < 60 degrees, on the sine
Sin30 == 500
Sin60 == 866
LatBelow30(lat) == lat.sin < Sin30
LatBelow60(lat) == lat.sin < Sin60

Zeros(n) == [p \in 0..(n - 1) |-> 0]

\* the per-cell outputs written by colorPixelsByIce_global, all zero
ZeroOutputs ==
    [latitudeWeighting |-> 0, elevationWeighting |-> 0, landWeighting |-> 0,
     moistureAvailable |-> 0, combined |-> 0, threshold |-> 0,
     continentalFactor |-> 0, thermalGate |-> 0, effectiveAccumulation |-> 0,
     T_lat |-> 0, T_elev |-> 0, dT_global |-> 0, T_mean |-> 0, T_season |-> 0,
     T_cont |-> 0, Tw |-> 0, Ts |-> 0, meltPressure |-> 0, melt |-> 0,
     accum |-> 0, iceSupply |-> 0, iceLeft |-> 0, continental01 |-> 0,
     warmFraction |-> 0, coldFraction |-> 0]

\* buildWorldContext(originalData, w, h, coords) (lines 103-163): fresh
\* zero-filled typed arrays; params is the layer's own parameter object.
\* originalData[p] is the red channel of cell p; outputs[p] holds the values
\* ctx.outputs.<field>[p].
buildWorldContext(originalData, w, h, layerParams) ==
    [inputs  |-> [originalData |-> originalData, width |-> w, height |-> h],
     params  |-> layerParams,
     derived |-> [effectiveSeaLevel |-> layerParams.seaLevel * E4,
                  isLandMask |-> Zeros(w * h),
                  heightAboveSea |-> Zeros(w * h),
                  sstByLatitude |-> Zeros(w * h),
                  continentalValue |-> Zeros(w * h),
                  moistureAvailability |-> Zeros(w * h),
                  moistureSrc |-> Zeros(w * h),
                  moisturePrev |-> Zeros(w * h),
                  moistureCost |-> Zeros(w * h),
                  iceMask |-> Zeros(w * h)],
     outputs |-> [p \in 0..(w * h - 1) |-> ZeroOutputs]]

\* Mutant: the lower clamp `if (eff < 0) eff = 0` left out.
deriveEffectiveSeaLevel_global_NoFloor(ctx) ==
    LET seaDrop == ctx.params.iceLevel * ctx.params.seaLevel
                       * ctx.params.seaLevelDropDueToIce
        eff     == ctx.params.seaLevel * E4 - seaDrop
    IN  [ctx EXCEPT !.derived.effectiveSeaLevel =
                        IF eff > 255 * E4 THEN 255 * E4 ELSE eff]

\* Mutant: the upper clamp `if (eff > 255) eff = 255` left out.
deriveEffectiveSeaLevel_global_NoCeiling(ctx) ==
    LET seaDrop == ctx.params.iceLevel * ctx.params.seaLevel
                       * ctx.params.seaLevelDropDueToIce
        eff     == ctx.params.seaLevel * E4 - seaDrop
    IN  [ctx EXCEPT !.derived.effectiveSeaLevel = IF eff < 0 THEN 0 ELSE eff]

\* deriveEffectiveSeaLevel_global (lines 264-275)
deriveEffectiveSeaLevel_global(ctx) ==
    LET seaDrop == ctx.params.iceLevel * ctx.params.seaLevel
                       * ctx.params.seaLevelDropDueToIce
        eff     == ctx.params.seaLevel * E4 - seaDrop
    IN  [ctx EXCEPT !.derived.effectiveSeaLevel =
                        IF eff < 0 THEN 0
                        ELSE IF eff > 255 * E4 THEN 255 * E4 ELSE eff]

\* colorPixelsBySeaLevel_global (lines 277-294); heightAboveSea is a
\* Uint8Array, which drops the fraction of the stored value.
colorPixelsBySeaLevel_global(ctx) ==
    LET eff  == ctx.derived.effectiveSeaLevel
        n    == ctx.inputs.width * ctx.inputs.height
        elev(p) == ctx.inputs.originalData[p] * E4
        h(p) == elev(p) - eff
    IN  [ctx EXCEPT
           !.derived.isLandMask =
               [p \in 0..(n - 1) |-> IF elev(p) < eff THEN 0 ELSE 1],
           !.derived.heightAboveSea =
               [p \in 0..(n - 1) |->
                   IF elev(p) < eff THEN 0
                   ELSE IF h(p) > 255 * E4 THEN 255
                   ELSE IF h(p) < 0 THEN 0
                   ELSE h(p) \div E4]]

\* blurMaskWithSAT_U8(mask, width, height, radius, passes, getWindowForRow)
\* of RectangleSum.ts: each pass replaces every cell by the mean of the mask
\* over its window, columns wrapping modulo width and rows clamped to the
\* raster; passes are chained.  mask and result are in thousandths.
\* getContinentalWindowForRow (lines 352-391) gives dy0 = -r, dy1 = +r,
\* dx0 = -r + centerShift, dx1 = +r + centerShift with |centerShift| =
\* round(bias * r).  The radius passed is width / 8; on the rasters of the
\* model (narrower than 8 columns) its whole part r is 0 and so is the shift.
getContinentalWindowForRow(y, h, r) ==
    [dx0 |-> -r, dx1 |-> r, dy0 |-> -r, dy1 |-> r]

RECURSIVE SumOver(_, _)
SumOver(f, S) ==
    IF S = {} THEN 0
    ELSE LET x == CHOOSE x \in S : TRUE IN f[x] + SumOver(f, S \ {x})

blurPass(mask, width, height, r) ==
    [p \in 0..(width * height - 1) |->
        LET x   == p % width
            y   == p \div width
            win == getContinentalWindowForRow(y, height, r)
            rows == {yy \in 0..(height - 1) : yy >= y + win.dy0 /\ yy <= y + win.dy1}
            cols == (x + win.dx0)..(x + win.dx1)
            cells == [c \in rows \X cols |-> mask[c[1] * width + (c[2] % width)]]
        IN  SumOver(cells, rows \X cols) \div Cardinality(rows \X cols)]

RECURSIVE blurMaskWithSAT_U8(_, _, _, _, _)
blurMaskWithSAT_U8(mask, width, height, radius, passes) ==
    IF passes = 0 THEN mask
    ELSE blurMaskWithSAT_U8(blurPass(mask, width, height, radius),
                            width, height, radius, passes - 1)

METERS_PER_ELEV_UNIT == 77

\* const elevationPenalty = (u, v) => ... (lines 447-466), D0 = 100 m,
\* D1 = 500 m
elevationPenalty(ctx, u, v) ==
    IF ctx.derived.isLandMask[v] = 0 THEN 0
    ELSE LET hu == ctx.derived.heightAboveSea[u] * METERS_PER_ELEV_UNIT
             hv == ctx.derived.heightAboveSea[v] * METERS_PER_ELEV_UNIT
             upslope == Max2(0, hv - hu)
             t == Max2(0, Min2(Scale, ((upslope - 100) * Scale) \div (500 - 100)))
         IN  (((ctx.params.mountainRainout * t) \div Scale) * t) \div Scale

\* const directionPenalty = (u, v, dir) => ... (lines 468-494):
\* ALONG 0, CROSS 0.04, AGAINST 0.08, POLAR 0.05
directionPenalty(ctx, u, v, dir) ==
    LET lat == worldYToLat_webMercator(u \div ctx.inputs.width, ctx.inputs.height)
    IN  IF LatBelow30(lat)
        THEN (IF dir = 1 THEN 0 ELSE IF dir = 0 THEN 80 ELSE 40)
        ELSE IF LatBelow60(lat)
        THEN (IF dir = 0 THEN 0 ELSE IF dir = 1 THEN 80 ELSE 40)
        ELSE 50

\* const continentalPenalty = (u, v, dir) => ... (lines 496-515), GAMMA 2.5
continentalPenalty(ctx, continentalValue, u, v, dir) ==
    IF ctx.derived.isLandMask[v] = 0 THEN 0
    ELSE LET c == continentalValue[v]
             t == Max2(0, Min2(Scale, ((c - ctx.params.coastalThreshold) * Scale)
                                          \div (Scale - ctx.params.coastalThreshold)))
         IN  (ctx.params.continentalDryness * Pow(t, 250)) \div Scale

\* computeMoisture_global (lines 296-540).  The coldMultiplier closure is
\* built but not passed (line 524 is commented out).
computeMoisture_global(ctx) ==
    LET w == ctx.inputs.width
        h == ctx.inputs.height
        n == w * h
        isLandMask == ctx.derived.isLandMask
        vaporCap(y) == clamp01(Pow(worldYToLat_webMercator(y, h).cos,
                                   ctx.params.vaporLatitudeExponent))
        sstByLatitude == [p \in 0..(n - 1) |->
                             IF isLandMask[p] = 1 THEN 0
                             ELSE vaporCap(p \div w) * Scale]
        blurred == blurMaskWithSAT_U8([p \in 0..(n - 1) |-> isLandMask[p] * Scale],
                                      w, h, w \div 8, 3)
        tables(continentalValue) ==
            [pixelKm |-> None, L0Km |-> None, landBaseMultiplier |-> None,
             coldMultiplier |-> None,
             elevationPenalty |->
                 Some([a \in StepArgs(n) |-> elevationPenalty(ctx, a[1], a[2])]),
             directionPenalty |->
                 Some([a \in StepArgs(n) |-> directionPenalty(ctx, a[1], a[2], a[3])]),
             continentalPenalty |->
                 Some([a \in StepArgs(n) |->
                          continentalPenalty(ctx, continentalValue, a[1], a[2], a[3])])]
    IN  CHOOSE r \in {
          [ctx EXCEPT !.derived.sstByLatitude = sstByLatitude,
                      !.derived.continentalValue = res[1],
                      !.derived.moistureAvailability = res[2].moisture,
                      !.derived.moistureSrc = res[2].src,
                      !.derived.moisturePrev = res[2].prev,
                      !.derived.moistureCost = res[2].cost]
          : res \in { <<continentalValue,
                        computeMoistureAvailabilityDijkstra(
                            isLandMask, sstByLatitude, w, h, tables(continentalValue))>>
                      : continentalValue \in {blurred} } } : TRUE

T_EQ == 27000
\* const k = 0.05 (melt per degree of summer warmth)
k_melt == 50
COAST == 500

\* the land branch of the per-cell loop of colorPixelsByIce_global
\* (lines 631-727)
landOutputs(ctx, p) ==
    CHOOSE r \in {
      LET P == ctx.params
          elevation_m == ctx.derived.heightAboveSea[p] * METERS_PER_ELEV_UNIT
          moistureAvailable ==
              (ctx.derived.moistureAvailability[p] * P.moistureScale) \div Hundred
          accum == moistureAvailable
          f == Pow(lat.cos, 130)
          T_lat == P.T_POLE + ((T_EQ - P.T_POLE) * f) \div Scale
          T_elev == -((P.lapseRate * elevation_m) \div Scale)
          dT_global == -((P.maxGlobalCooling * P.iceLevel) \div Hundred)
          continentalRaw ==
              (ctx.derived.continentalValue[p] * P.continentalScale) \div Hundred
          continental01 ==
              clamp01(((continentalRaw - COAST) * Scale) \div (Scale - COAST))
          T_cont == (P.continentalSeasonBoost * continental01) \div Scale
      IN  CHOOSE r1 \in {
            LET T_mean == t.T_lat + t.T_elev + t.dT_global
                T_season == (P.seasonalityStrength * lat.sin) \div Scale + t.T_cont
                Tw == T_mean - T_season
                Ts == T_mean + T_season
                coldFraction == IF Tw >= 0 THEN 0 ELSE clamp01Quotient(-Tw, Ts - Tw)
                meltPressure == Max2(0, Ts)
                denom == Ts - Tw
                warmFraction == IF meltPressure <= 0 \/ denom <= 0 THEN 0
                                ELSE clamp01((meltPressure * Scale) \div denom)
            IN  CHOOSE r2 \in {
                  LET ice == (accum * c.coldFraction) \div Scale
                      melt == (c.meltPressure * c.warmFraction) \div (Scale \div k_melt)
                      iceLeft == ice - melt
                  IN  [latitudeWeighting |-> lat.sin, elevationWeighting |-> -1,
                       landWeighting |-> -1, moistureAvailable |-> moistureAvailable,
                       combined |-> IF iceLeft < 0 THEN 0
                                    ELSE IF iceLeft > Micro THEN Micro ELSE iceLeft,
                       threshold |-> Scale - 10 * P.iceLevel,
                       continentalFactor |-> continentalRaw,
                       thermalGate |-> IF c.Tw <= 0 THEN 1 ELSE 0,
                       effectiveAccumulation |-> ice,
                       T_lat |-> t.T_lat, T_elev |-> t.T_elev,
                       dT_global |-> t.dT_global, T_mean |-> c.T_mean,
                       T_season |-> c.T_season, T_cont |-> t.T_cont,
                       Tw |-> c.Tw, Ts |-> c.Ts, meltPressure |-> c.meltPressure,
                       melt |-> melt, accum |-> accum, iceSupply |-> ice,
                       iceLeft |-> iceLeft, continental01 |-> continental01,
                       warmFraction |-> c.warmFraction,
                       coldFraction |-> c.coldFraction]
                  : c \in {[T_mean |-> T_mean, T_season |-> T_season, Tw |-> Tw,
                            Ts |-> Ts, coldFraction |-> coldFraction,
                            meltPressure |-> meltPressure,
                            warmFraction |-> warmFraction]} } : TRUE
            : t \in {[T_lat |-> T_lat, T_elev |-> T_elev, dT_global |-> dT_global,
                      T_cont |-> T_cont]} } : TRUE
      : lat \in {worldYToLat_webMercator(p \div ctx.inputs.width,
                                         ctx.inputs.height)} } : TRUE

\* the ocean branch (lines 598-629): every output is written except
\* warmFraction and coldFraction, which keep what the arrays hold
oceanOutputs(ctx, p) ==
    [ZeroOutputs EXCEPT
        !.latitudeWeighting =
            worldYToLat_webMercator(p \div ctx.inputs.width, ctx.inputs.height).sin,
        !.threshold = Scale - 10 * ctx.params.iceLevel,
        !.warmFraction = ctx.outputs[p].warmFraction,
        !.coldFraction = ctx.outputs[p].coldFraction]

\* Mutant: the mask test of the commented line 728, iceLeft > 0.05.
colorPixelsByIce_global_Threshold05(ctx) ==
    LET n   == ctx.inputs.width * ctx.inputs.height
        out == [p \in 0..(n - 1) |->
                   IF ctx.derived.isLandMask[p] = 0 THEN oceanOutputs(ctx, p)
                   ELSE landOutputs(ctx, p)]
    IN  [ctx EXCEPT
           !.outputs = out,
           !.derived.iceMask =
               [p \in 0..(n - 1) |->
                   IF ctx.derived.isLandMask[p] # 0 /\ out[p].iceLeft > 50000
                   THEN 1 ELSE 0]]

\* colorPixelsByIce_global (lines 542-731)
colorPixelsByIce_global(ctx) ==
    LET n   == ctx.inputs.width * ctx.inputs.height
        out == [p \in 0..(n - 1) |->
                   IF ctx.derived.isLandMask[p] = 0 THEN oceanOutputs(ctx, p)
                   ELSE landOutputs(ctx, p)]
    IN  [ctx EXCEPT
           !.outputs = out,
           !.derived.iceMask =
               [p \in 0..(n - 1) |->
                   IF ctx.derived.isLandMask[p] # 0 /\ out[p].iceLeft > 0
                   THEN 1 ELSE 0]]

\* Mutant: the land mask is computed before the effective sea level.
recomputeWorldDerived_MaskFirst(ctx, layerParams) ==
    CHOOSE r \in {colorPixelsByIce_global(c3) : c3 \in {computeMoisture_global(c2) :
      c2 \in {deriveEffectiveSeaLevel_global(c1) :
      c1 \in {colorPixelsBySeaLevel_global(c0) :
      c0 \in {[ctx EXCEPT !.params = layerParams]}}}}} : TRUE

\* recomputeWorldDerived (lines 734-748) on a loaded world: params is set,
\* then the four stages run in order, each on the result of the one before
recomputeWorldDerived(ctx, layerParams) ==
    CHOOSE r \in {colorPixelsByIce_global(c3) : c3 \in {computeMoisture_global(c2) :
      c2 \in {colorPixelsBySeaLevel_global(c1) :
      c1 \in {deriveEffectiveSeaLevel_global(c0) :
      c0 \in {[ctx EXCEPT !.params = layerParams]}}}}} : TRUE

\* The allocations of a recompute that can throw a RangeError after an
\* earlier stage has written to the bank: the arrays of the search
\* (computeMoistureAvailabilityDijkstra.ts line 113) and latByRow of the ice
\* stage (line 585).
FaultPoints == {"search", "ice"}

\* recomputeWorldDerived leaving by an exception thrown at the fault point:
\* the stages before it have written in place.  At "search" sstByLatitude
\* is filled (line 327) and continentalValue assigned (line 401), the
\* results of the search (lines 533-536) are not; at "ice" the moisture
\* stage is complete and the ice stage has written nothing.
recomputeThrowsAt(ctx, layerParams, point) ==
    CHOOSE r \in {
      IF point = "ice" THEN c3
      ELSE [c2 EXCEPT !.derived.sstByLatitude = c3.derived.sstByLatitude,
                      !.derived.continentalValue = c3.derived.continentalValue]
      : c2 \in {colorPixelsBySeaLevel_global(c1) :
                c1 \in {deriveEffectiveSeaLevel_global(c0) :
                c0 \in {[ctx EXCEPT !.params = layerParams]}}},
        c3 \in {computeMoisture_global(c2x) :
                c2x \in {colorPixelsBySeaLevel_global(c1) :
                c1 \in {deriveEffectiveSeaLevel_global(c0) :
                c0 \in {[ctx EXCEPT !.params = layerParams]}}}} }
      : TRUE

\* ---------------------------------------------------------------- state
VARIABLES
    \* the search (computeMoistureAvailabilityDijkstra): its arguments,
    isLand, sourceStrength, width, height, params,
    \* its locals cost, prev, src, heap as one record, its moisture array,
    search, moisture,
    \* and its position: "start", "loop", "done"
    pc,
    \* history: the popped entries that went on to relax their neighbours,
    \* in order, each with the predecessor and source its cell had then
    expanded,
    \* the value the last heap.pop() returned (const it, line 145): None
    \* before the first call, else Some([isNull, node, key])
    popped,
    \* the z = 0 tile the server sends: [width, height, data]
    image,
    \* the layer: this.params, this._world (None or Some(WorldContext)),
    \* this._worldBasePromise ("null", "pending", "fulfilled")
    thisParams, world, worldBasePromise,
    \* callback pairs registered on the pending promise, the microtask queue,
    \* and whether the queue is being drained
    waiting, microtasks, draining,
    \* the tile canvases: "none", "pending", "painted", "failed", and "stale"
    \* for a painted canvas whose bank has been rewritten since
    tiles,
    \* history: recomputes run since this.params last changed (0, 1, 2 = more)
    recomputes,
    \* the Image objects whose onload or onerror has not run yet
    loads

searchVars == <<isLand, sourceStrength, width, height, params, search, moisture, pc,
                expanded, popped>>

worldVars == <<image, thisParams, world, worldBasePromise, waiting, microtasks,
               draining, tiles, recomputes, loads>>

vars == <<isLand, sourceStrength, width, height, params, search, moisture, pc,
          expanded, popped, image, thisParams, world, worldBasePromise, waiting, microtasks,
          draining, tiles, recomputes, loads>>

\* ------------------------------------------------ inputs of the search
Dims == {d \in (1..MaxCells) \X (1..MaxCells) : d[1] * d[2] <= MaxCells}

\* Float32 source strengths (millionths): below eps, inside (eps, 1), above 1
StrengthLevels == {0, 400000, 2000000}


\* a multiplier below 1 on even cells, 2.5 on odd cells
ColdTable(N) == [v \in 0..(N - 1) |-> IF v % 2 = 0 THEN 500 ELSE 2500]
\* 3.0 on a step to a higher index, negative otherwise
ElevTable(N) == [a \in StepArgs(N) |-> IF a[2] > a[1] THEN 3000 ELSE -20]
\* westward free, eastward 0.08, north/south 0.04, as the easterlies band
WindTable(N) == [a \in StepArgs(N) |->
                    IF a[3] = 1 THEN 0 ELSE IF a[3] = 0 THEN 80 ELSE 40]
\* 0.5 on every step into a land cell
ContTable(N, land) == [a \in StepArgs(N) |-> IF land[a[2]] = 0 THEN 0 ELSE 500]

Callbacks(N, land) ==
    { [coldMultiplier |-> None, elevationPenalty |-> None,
       directionPenalty |-> None, continentalPenalty |-> None],
      [coldMultiplier |-> None, elevationPenalty |-> None,
       directionPenalty |-> Some(WindTable(N)), continentalPenalty |-> None],
      [coldMultiplier |-> Some(ColdTable(N)), elevationPenalty |-> Some(ElevTable(N)),
       directionPenalty |-> Some(WindTable(N)),
       continentalPenalty |-> Some(ContTable(N, land))] }

\* L0Km: absent (3000 km), 0 (replaced by 1 km), 0.5 km, 25 km
L0Choices == {None, Some(0), Some(5), Some(250)}
MultChoices == {None, Some(-1)}

ParamChoices(N, land) ==
    { [pixelKm |-> None, L0Km |-> l, landBaseMultiplier |-> m,
       coldMultiplier |-> cb.coldMultiplier,
       elevationPenalty |-> cb.elevationPenalty,
       directionPenalty |-> cb.directionPenalty,
       continentalPenalty |-> cb.continentalPenalty]
      : l \in L0Choices, m \in MultChoices, cb \in Callbacks(N, land) }

\* ------------------------------------------------- inputs of the layer
\* Elevation samples of the red channel of the z = 0 tile.
Elevations == {100, 200}

WorldDims == {d \in (1..MaxWorldCells) \X (1..MaxWorldCells) :
                 d[1] * d[2] <= MaxWorldCells}

Images == UNION { [width : {d[1]}, height : {d[2]},
                   data : [0..(d[1] * d[2] - 1) -> Elevations]] : d \in WorldDims }

\* The parameter record the page creates the layer with (page.tsx lines
\* 211-227) and the values named in colorPixelsByIce_global (lines 566-572).
InitialParams ==
    [seaLevel |-> 142, iceLevel |-> 33, seaLevelDropDueToIce |-> 5,
     T_POLE |-> -25000, lapseRate |-> 1500, seasonalityStrength |-> 15000,
     continentalSeasonBoost |-> 10000, maxGlobalCooling |-> 18000,
     moistureScale |-> 20, continentalScale |-> 100,
     vaporLatitudeExponent |-> 150, mountainRainout |-> 100,
     continentalDryness |-> 500, coastalThreshold |-> 500]

\* The partial records passed to setParams.
ParamUpdates ==
    { [seaLevel |-> 142], [seaLevel |-> 255], [iceLevel |-> 100],
      [seaLevelDropDueToIce |-> 200],
      [seaLevel |-> 255, iceLevel |-> 33, seaLevelDropDueToIce |-> 5] }

\* Partial records that move the sea-level or the ice slider.
SeaAndIceUpdates == { [seaLevel |-> 255], [iceLevel |-> 100] }

\* Partial records that move the sliders of the thermal model.
ThermalUpdates ==
    { [iceLevel |-> 100], [seaLevelDropDueToIce |-> 200],
      [seasonalityStrength |-> 0, continentalSeasonBoost |-> 0],
      [continentalScale |-> 75, coastalThreshold |-> 800] }

\* Object.assign(this.params, partial)
Assign(target, partial) ==
    [f \in DOMAIN target |-> IF f \in DOMAIN partial THEN partial[f] ELSE target[f]]

TileIds == 1..MaxTiles

\* ---------------------------------------------------- the search, stepwise
SearchInit ==
    /\ \E d \in Dims :
         /\ width = d[1]
         /\ height = d[2]
         /\ isLand \in [0..(d[1] * d[2] - 1) -> {0, 1}]
         /\ sourceStrength \in [0..(d[1] * d[2] - 1) -> StrengthLevels]
         /\ \A p \in 0..(d[1] * d[2] - 1) : isLand[p] # 0 => sourceStrength[p] = 0
         /\ params \in ParamChoices(d[1] * d[2], isLand)
    /\ search = Allocate(0)
    /\ moisture = <<>>
    /\ pc = "start"
    /\ expanded = <<>>
    /\ popped = None
    \* no layer is involved
    /\ image = [width |-> 1, height |-> 1, data |-> [p \in {0} |-> 0]]
    /\ thisParams = InitialParams
    /\ world = None
    /\ worldBasePromise = "null"
    /\ waiting = <<>>
    /\ microtasks = <<>>
    /\ draining = FALSE
    /\ tiles = [i \in TileIds |-> "none"]
    /\ recomputes = 0
    /\ loads = 0

\* lines 93-131: allocate, seed every ocean cell
Seed ==
    /\ pc = "start"
    /\ LengthsOk(isLand, sourceStrength, width, height)
    /\ search' = SeedFrom(Allocate(width * height), isLand, sourceStrength,
                          width * height, 0)
    /\ pc' = "loop"
    /\ UNCHANGED <<isLand, sourceStrength, width, height, params, moisture, expanded,
                   popped>>
    /\ UNCHANGED worldVars

\* lines 144-199: one iteration of the main loop
Iterate ==
    /\ pc = "loop"
    /\ size(search.heap) > 0
    /\ search' = LoopBody(search, isLand, params, width, height)
    /\ \E it \in {pop(search.heap)} :
         /\ popped' = Some([isNull |-> it.isNull, node |-> it.node, key |-> it.key])
         /\ expanded' = IF isStale(search, it.node, it.key) THEN expanded
                        ELSE Append(expanded, [node |-> it.node, key |-> it.key,
                                               prev |-> search.prev[it.node],
                                               src |-> search.src[it.node]])
    /\ UNCHANGED <<isLand, sourceStrength, width, height, params, moisture, pc>>
    /\ UNCHANGED worldVars

\* lines 201-206: the heap is empty; fill moisture and return
Finish ==
    /\ pc = "loop"
    /\ size(search.heap) = 0
    /\ moisture' = MoistureOf(search.cost)
    /\ pc' = "done"
    /\ UNCHANGED <<isLand, sourceStrength, width, height, params, search, expanded,
                   popped>>
    /\ UNCHANGED worldVars

SearchNext == Seed \/ Iterate \/ Finish

SearchSpec == SearchInit /\ [][SearchNext]_vars

\* the function is synchronous: once called it executes its next statement
FairSearchSpec == SearchInit /\ [][SearchNext]_vars /\ WF_vars(SearchNext)

\* ---- class MinHeapPair on its own: any pushes and pops on one heap
\* the nodes and keys (thousandths) pushed
HeapNodes == {0, 1}
HeapKeys == {0, 16, 917}

\* const heap = new MinHeapPair() (line 120)
HeapInit ==
    /\ width = 1
    /\ height = 1
    /\ isLand = [p \in {0} |-> 0]
    /\ sourceStrength = [p \in {0} |-> 0]
    /\ params = [pixelKm |-> None, L0Km |-> None, landBaseMultiplier |-> None,
                 coldMultiplier |-> None, elevationPenalty |-> None,
                 directionPenalty |-> None, continentalPenalty |-> None]
    /\ search = Allocate(0)
    /\ moisture = <<>>
    /\ pc = "heap"
    /\ expanded = <<>>
    /\ popped = None
    \* no layer is involved
    /\ image = [width |-> 1, height |-> 1, data |-> [p \in {0} |-> 0]]
    /\ thisParams = InitialParams
    /\ world = None
    /\ worldBasePromise = "null"
    /\ waiting = <<>>
    /\ microtasks = <<>>
    /\ draining = FALSE
    /\ tiles = [i \in TileIds |-> "none"]
    /\ recomputes = 0
    /\ loads = 0

\* heap.push(node, key) (lines 31-47)
HeapPush ==
    /\ pc = "heap"
    /\ size(search.heap) < MaxHeap
    /\ \E node \in HeapNodes, key \in HeapKeys :
         search' = [search EXCEPT !.heap = push(search.heap, node, key)]
    /\ UNCHANGED <<isLand, sourceStrength, width, height, params, moisture, pc,
                   expanded, popped>>
    /\ UNCHANGED worldVars

\* heap.pop() (lines 49-83)
HeapPop ==
    /\ pc = "heap"
    /\ \E it \in {pop(search.heap)} :
         /\ popped' = Some([isNull |-> it.isNull, node |-> it.node, key |-> it.key])
         /\ search' = [search EXCEPT !.heap = it.heap]
    /\ UNCHANGED <<isLand, sourceStrength, width, height, params, moisture, pc,
                   expanded>>
    /\ UNCHANGED worldVars

HeapNext == HeapPush \/ HeapPop

HeapSpec == HeapInit /\ [][HeapNext]_vars

\* ------------------------------------------------ properties of the search
Cells == 0..(width * height - 1)
OceanCells == {p \in Cells : isLand[p] = 0}
LandCells == {p \in Cells : isLand[p] # 0}

\* the seed cost of an ocean cell, -ln(clamp(sourceStrength[p], eps, 1))
SeedCost(p) == NegLog(clampSourceStrength(sourceStrength[p], eps))

\* the in-bounds steps of the 4-connected grid that arrive at v, as
\* <<u, v, dir>>: from the west neighbour eastwards (dir 0), from the east
\* neighbour westwards (1), from the north neighbour southwards (2), from the
\* south neighbour northwards (3)
StepsInto(v, w, h) ==
    (IF (v % w) - 1 >= 0 THEN {<<v - 1, v, 0>>} ELSE {})
    \cup (IF (v % w) + 1 < w THEN {<<v + 1, v, 1>>} ELSE {})
    \cup (IF (v \div w) - 1 >= 0 THEN {<<v - w, v, 2>>} ELSE {})
    \cup (IF (v \div w) + 1 < h THEN {<<v + w, v, 3>>} ELSE {})

GridSteps(w, h) == UNION {StepsInto(v, w, h) : v \in 0..(w * h - 1)}

SetMin(S) == CHOOSE x \in S : \A y \in S : x <= y

\* Reference: Bellman-Ford over the same grid and step costs.  d0 is the
\* seed cost on ocean and Infinity on land; each round relaxes every step.
BellmanFordRound(d, land, prm, w, h) ==
    [v \in DOMAIN d |->
        SetMin({d[v]} \cup {d[a[1]] + stepCostTo(land, prm, a[1], a[2], a[3]) :
                              a \in {b \in StepsInto(v, w, h) : d[b[1]] # Infinity}})]

RECURSIVE BellmanFordRounds(_, _, _, _, _, _)
BellmanFordRounds(d, land, prm, w, h, n) ==
    IF n = 0 THEN d
    ELSE BellmanFordRounds(BellmanFordRound(d, land, prm, w, h), land, prm, w, h, n - 1)

BellmanFord ==
    BellmanFordRounds([p \in Cells |-> IF isLand[p] = 0 THEN SeedCost(p) ELSE Infinity],
                      isLand, params, width, height, width * height)

\* C1 as stated: when the search returns, every ocean cell has pathCost equal
\* to its seed cost, pathPredecessor -1 and pathSource itself.
C1_OceanKeepsSeed ==
    pc = "done" =>
        \A p \in OceanCells :
            /\ search.cost[p] = SeedCost(p)
            /\ search.prev[p] = -1
            /\ search.src[p] = p

\* C1 as amended: when the search returns, every ocean cell either still
\* holds its seed (cost = seed cost, predecessor -1, source itself) or was
\* relaxed from a strictly cheaper route (cost < seed cost, a predecessor, and
\* another ocean cell as source); ocean cells all keep their seed when all
\* ocean cells have the same clamped source strength.
C1_OceanSeedOrCheaper ==
    pc = "done" =>
        /\ \A p \in OceanCells :
              \/ /\ search.cost[p] = SeedCost(p)
                 /\ search.prev[p] = -1
                 /\ search.src[p] = p
              \/ /\ search.cost[p] < SeedCost(p)
                 /\ search.prev[p] # -1
                 /\ search.src[p] \in OceanCells \ {p}
        /\ (\A p, q \in OceanCells : SeedCost(p) = SeedCost(q)) =>
              \A p \in OceanCells :
                 /\ search.cost[p] = SeedCost(p)
                 /\ search.prev[p] = -1
                 /\ search.src[p] = p

\* C1 witness: a finished search in which one ocean cell was relaxed below its
\* seed and another kept its seed.
C1_Witness ==
    /\ pc = "done"
    /\ \E p, q \in OceanCells :
          /\ search.cost[p] < SeedCost(p)
          /\ search.prev[p] = q
          /\ search.cost[q] = SeedCost(q)
          /\ search.src[q] = q

\* C2: when the search returns, pathCost of every cell equals the cheapest
\* seed-plus-steps cost over all ocean cells and all 4-connected paths, as a
\* Bellman-Ford relaxation on the same grid and step costs computes it.
C2_CostIsBellmanFord ==
    pc = "done" => search.cost = BellmanFord

\* C2 witness: a finished search with a direction penalty in which some cell
\* lies two steps from its source and an ocean cell was reached more cheaply
\* from another.
C2_Witness ==
    /\ pc = "done"
    /\ params.directionPenalty # None
    /\ \E v \in Cells : /\ search.prev[v] # -1
                        /\ search.prev[search.prev[v]] # -1
    /\ \E p \in OceanCells : search.cost[p] < SeedCost(p)

\* the direction of the step u -> v between grid neighbours
DirOf(u, v) == CHOOSE d \in Dir4 : <<u, v, d>> \in GridSteps(width, height)

\* the step cost as the claim states it: all four supplied penalties add up
ClaimedStepCost(u, v, dir) ==
    LET base == IF isLand[v] = 0 THEN oceanStepCost ELSE baselineLandStep(params)
        cold == IF params.coldMultiplier # None
                THEN clampAtLeast1(params.coldMultiplier[1][v]) ELSE Scale
        elev == IF params.elevationPenalty # None
                THEN clampNonNeg(params.elevationPenalty[1][<<u, v, dir>>]) ELSE 0
        wind == IF params.directionPenalty # None
                THEN clampNonNeg(params.directionPenalty[1][<<u, v, dir>>]) ELSE 0
        cont == IF params.continentalPenalty # None
                THEN clampNonNeg(params.continentalPenalty[1][<<u, v, dir>>]) ELSE 0
    IN  Max2(0, (base * cold) \div Scale + elev + wind + cont)

\* C3 as stated: the cost the search charges for the step from a cell's
\* predecessor is max(0, base * coldMultiplier + elevationPenalty +
\* directionPenalty + continentalPenalty), every supplied penalty included.
C3_StepCostHasAllPenalties ==
    pc = "done" =>
        \A v \in Cells :
            search.prev[v] # -1 =>
                search.cost[v] = search.cost[search.prev[v]]
                    + ClaimedStepCost(search.prev[v], v, DirOf(search.prev[v], v))

\* C4: on a raster without ocean cells the search does not throw and returns
\* cost +Infinity, moisture 0, predecessor -1 and source -1 for every cell.
C4_AllLand ==
    OceanCells = {} =>
        /\ LengthsOk(isLand, sourceStrength, width, height)
        /\ pc = "loop" => size(search.heap) = 0
        /\ pc = "done" =>
              \A p \in Cells :
                 /\ search.cost[p] = Infinity
                 /\ moisture[p] = 0
                 /\ search.prev[p] = -1
                 /\ search.src[p] = -1

\* C4 witness: the search returned on a single-cell all-land raster.
C4_Witness ==
    /\ pc = "done"
    /\ OceanCells = {}
    /\ width * height = 1
    /\ DOMAIN moisture = Cells

\* C5 as stated: with at least one ocean cell, every cell ends with a finite
\* pathCost >= 0, an ocean cell as pathSource, and moisture in (0, 1].
C5_AllReachedAndMoist ==
    (pc = "done" /\ OceanCells # {}) =>
        \A p \in Cells :
            /\ IsFinite(search.cost[p])
            /\ search.cost[p] >= 0
            /\ search.src[p] \in OceanCells
            /\ moisture[p] > 0
            /\ moisture[p] <= Micro

\* the effective e-folding distance of a parameter record
EffectiveL0(prm) == OrDefault(prm.L0Km, DefaultL0Km)

\* the search's result with another e-folding distance, all else equal
ResultWithL0(l) ==
    computeMoistureAvailabilityDijkstra(isLand, sourceStrength, width, height,
                                        [params EXCEPT !.L0Km = l])

\* C6 as stated: for any two e-folding distances L1 < L2, every land cell's
\* pathCost with L1 is at least its pathCost with L2.
C6_MonotoneAnyL0 ==
    pc = "done" =>
        \A l \in L0Choices :
            EffectiveL0(params) < OrDefault(l, DefaultL0Km) =>
                \A v \in LandCells : search.cost[v] >= ResultWithL0(l).cost[v]

\* C6 as amended: for two positive e-folding distances L1 < L2 and a
\* non-negative pixelKm * landBaseMultiplier, every land cell's pathCost with
\* L1 is at least its pathCost with L2, and its moisture is no larger.
C6_MonotonePositiveL0 ==
    (/\ pc = "done"
     /\ EffectiveL0(params) > 0
     /\ OrDefault(params.pixelKm, DefaultPixelKm)
            * OrDefault(params.landBaseMultiplier, 1) >= 0) =>
        \A l \in L0Choices :
            EffectiveL0(params) < OrDefault(l, DefaultL0Km) =>
                \A v \in LandCells :
                    /\ search.cost[v] >= ResultWithL0(l).cost[v]
                    /\ moisture[v] <= ResultWithL0(l).moisture[v]

\* C6 witness: a finished search with a positive distance for which a longer
\* distance gives some land cell a strictly smaller cost.
C6_Witness ==
    /\ pc = "done"
    /\ EffectiveL0(params) > 0
    /\ OrDefault(params.landBaseMultiplier, 1) >= 0
    /\ \E l \in L0Choices :
          /\ EffectiveL0(params) < OrDefault(l, DefaultL0Km)
          /\ \E v \in LandCells : search.cost[v] > ResultWithL0(l).cost[v]


\* ------------------------------------------------------- the layer, stepwise
WorldInit ==
    /\ image \in Images
    /\ thisParams = InitialParams
    /\ world = None
    /\ worldBasePromise = "null"
    /\ waiting = <<>>
    /\ microtasks = <<>>
    /\ draining = FALSE
    /\ tiles = [i \in TileIds |-> "none"]
    /\ recomputes = 0
    /\ loads = 0

Init ==
    /\ WorldInit
    /\ isLand = <<>>
    /\ sourceStrength = <<>>
    /\ width = 0
    /\ height = 0
    /\ params = None
    /\ search = Allocate(0)
    /\ moisture = <<>>
    /\ pc = "idle"
    /\ expanded = <<>>
    /\ popped = None

Pending == Len(waiting) + Len(microtasks)

\* this._ensureWorldBaseLoaded().then(..).catch(..) (lines 165-221) for the
\* callback pair cb: already loaded - Promise.resolve(), the callback is a
\* microtask; load in flight - the callback joins the shared promise;
\* otherwise a load is started.
\* Mutant: the test of the in-flight promise (line 171) left out.
EnsureWorldBaseLoadedThen_NoSharing(cb) ==
    IF world # None
    THEN /\ microtasks' = Append(microtasks, [kind |-> cb.kind, tile |-> cb.tile,
                                              ok |-> TRUE])
         /\ UNCHANGED <<worldBasePromise, waiting, loads>>
    ELSE /\ worldBasePromise' = "pending"
         /\ loads' = loads + 1
         /\ waiting' = Append(waiting, cb)
         /\ UNCHANGED microtasks

EnsureWorldBaseLoadedThen(cb) ==
    IF world # None
    THEN /\ microtasks' = Append(microtasks, [kind |-> cb.kind, tile |-> cb.tile,
                                              ok |-> TRUE])
         /\ UNCHANGED <<worldBasePromise, waiting, loads>>
    ELSE IF worldBasePromise # "null"
    THEN /\ waiting' = Append(waiting, cb)
         /\ UNCHANGED <<worldBasePromise, microtasks, loads>>
    ELSE /\ worldBasePromise' = "pending"
         /\ loads' = loads + 1
         /\ waiting' = Append(waiting, cb)
         /\ UNCHANGED microtasks

\* createTile(coords, done) (lines 224-253), run by a task of the page.
\* A canvas without a 2D context is handed back at line 227 before any
\* field of the layer is read or written: that path is a stuttering step.
CreateTile ==
    /\ ~draining
    /\ Pending < MaxPending
    /\ \E i \in TileIds :
         /\ tiles[i] = "none"
         /\ \A j \in TileIds : j < i => tiles[j] # "none"
         /\ tiles' = [tiles EXCEPT ![i] = "pending"]
         /\ EnsureWorldBaseLoadedThen([kind |-> "tile", tile |-> i])
    /\ UNCHANGED <<image, thisParams, world, draining, recomputes>>
    /\ UNCHANGED searchVars

\* setParams(partial) (lines 1050-1071), run by a task of the page.
\* ctx.params is the same object as this.params.
SetParamsFrom(updates) ==
    /\ ~draining
    /\ Pending < MaxPending
    /\ \E partial \in updates :
         LET merged == Assign(thisParams, partial) IN
         /\ thisParams' = merged
         /\ world' = IF world = None THEN None
                     ELSE Some([world[1] EXCEPT !.params = merged])
         /\ recomputes' = IF merged = thisParams THEN recomputes ELSE 0
    /\ EnsureWorldBaseLoadedThen([kind |-> "params", tile |-> 0])
    /\ UNCHANGED <<image, draining, tiles>>
    /\ UNCHANGED searchVars

SetParams == SetParamsFrom(ParamUpdates)

\* setParams called with one of the two main sliders
SetSeaAndIce == SetParamsFrom(SeaAndIceUpdates)

\* setParams called with the records of the thermal sliders
SetThermalParams == SetParamsFrom(ThermalUpdates)

Settled(ok) ==
    [i \in 1..Len(waiting) |->
        [kind |-> waiting[i].kind, tile |-> waiting[i].tile, ok |-> ok]]

\* Mutant: the world is built and recomputed with the parameter record the
\* layer was created with.
LoadSucceeds_InitialParams ==
    /\ loads > 0
    /\ worldBasePromise = "pending"
    /\ microtasks = <<>>
    /\ world' = Some(recomputeWorldDerived(
                         buildWorldContext(image.data, image.width, image.height,
                                           InitialParams),
                         InitialParams))
    /\ recomputes' = 1
    /\ loads' = loads - 1
    /\ worldBasePromise' = "fulfilled"
    /\ microtasks' = Settled(TRUE)
    /\ waiting' = <<>>
    /\ draining' = TRUE
    /\ UNCHANGED <<image, thisParams, tiles>>
    /\ UNCHANGED searchVars

\* img.onload (lines 180-203): the world is built and recomputed, the
\* promise resolves and the callbacks waiting on it become microtasks
LoadSucceeds ==
    /\ loads > 0
    /\ worldBasePromise = "pending"
    /\ microtasks = <<>>
    /\ world' = Some(recomputeWorldDerived(
                         buildWorldContext(image.data, image.width, image.height,
                                           thisParams),
                         thisParams))
    /\ recomputes' = 1
    /\ loads' = loads - 1
    /\ worldBasePromise' = "fulfilled"
    /\ microtasks' = Settled(TRUE)
    /\ waiting' = <<>>
    /\ draining' = TRUE
    /\ UNCHANGED <<image, thisParams, tiles>>
    /\ UNCHANGED searchVars

\* img.onerror (lines 209-211), or no 2D context in onload (lines 189-192):
\* the promise rejects, the catch of lines 215-218 clears _worldBasePromise
\* and the callers' catch callbacks become microtasks
LoadFails ==
    /\ loads > 0
    /\ worldBasePromise = "pending"
    /\ microtasks = <<>>
    /\ loads' = loads - 1
    /\ worldBasePromise' = "null"
    /\ microtasks' = Settled(FALSE)
    /\ waiting' = <<>>
    /\ draining' = TRUE
    /\ UNCHANGED <<image, thisParams, world, tiles, recomputes>>
    /\ UNCHANGED searchVars

Dequeue ==
    /\ microtasks' = Tail(microtasks)
    /\ draining' = (Tail(microtasks) # <<>>)

\* the canvases after the bank was written: a painted canvas no longer
\* shows the bank when a field of it changed
Outdated(t, changed) ==
    [i \in DOMAIN t |-> IF changed /\ t[i] = "painted" THEN "stale" ELSE t[i]]

\* Mutant: the repaint of line 1063 left out.
recolorAllTiles_global_Skipped(t) == t

\* _recolorAllTiles_global (lines 1073-1090): every canvas with a record in
\* _tileStore (set at line 235, when the tile is first painted) is painted
\* from the bank
recolorAllTiles_global(t) ==
    [i \in DOMAIN t |-> IF t[i] = "stale" THEN "painted" ELSE t[i]]

\* the then-callback of setParams (lines 1062-1065)
RecomputeAndRepaint ==
    /\ microtasks # <<>>
    /\ Head(microtasks).kind = "params"
    /\ Head(microtasks).ok
    /\ \E w \in {recomputeWorldDerived(world[1], thisParams)} :
         /\ world' = Some(w)
         /\ tiles' = recolorAllTiles_global(Outdated(tiles, w # world[1]))
    /\ recomputes' = Min2(recomputes + 1, 2)
    /\ Dequeue
    /\ UNCHANGED <<image, thisParams, worldBasePromise, waiting, loads>>
    /\ UNCHANGED searchVars

\* the catch-callback of setParams (lines 1066-1069): console.error
ReportLoadFailure ==
    /\ microtasks # <<>>
    /\ Head(microtasks).kind = "params"
    /\ ~Head(microtasks).ok
    /\ Dequeue
    /\ UNCHANGED <<image, thisParams, world, worldBasePromise, waiting, tiles,
                   recomputes, loads>>
    /\ UNCHANGED searchVars

\* the then-callback of createTile (lines 235-246): paint, done(null, tile)
PaintTile ==
    /\ microtasks # <<>>
    /\ Head(microtasks).kind = "tile"
    /\ Head(microtasks).ok
    /\ tiles' = [tiles EXCEPT ![Head(microtasks).tile] = "painted"]
    /\ Dequeue
    /\ UNCHANGED <<image, thisParams, world, worldBasePromise, waiting, recomputes,
                   loads>>
    /\ UNCHANGED searchVars

\* the catch-callback of createTile (lines 247-250): done(e, tile)
FailTile ==
    /\ microtasks # <<>>
    /\ Head(microtasks).kind = "tile"
    /\ ~Head(microtasks).ok
    /\ tiles' = [tiles EXCEPT ![Head(microtasks).tile] = "failed"]
    /\ Dequeue
    /\ UNCHANGED <<image, thisParams, world, worldBasePromise, waiting, recomputes,
                   loads>>
    /\ UNCHANGED searchVars

Next ==
    \/ CreateTile
    \/ SetParams
    \/ LoadSucceeds
    \/ LoadFails
    \/ RecomputeAndRepaint
    \/ ReportLoadFailure
    \/ PaintTile
    \/ FailTile

Spec == Init /\ [][Next]_vars

\* a step in which the callback at the head of the microtask queue runs
\* (RecomputeAndRepaint, ReportLoadFailure, PaintTile or FailTile)
MicrotaskRuns == microtasks # <<>> /\ microtasks' = Tail(microtasks)

\* a step in which the Image in flight delivers onload or onerror
ImageSettles == loads > 0 /\ microtasks = <<>> /\ loads' = loads - 1

\* The browser's scheduling: an Image whose src is set delivers onload or
\* onerror, and the microtask queue is drained.
Scheduling == WF_microtasks(MicrotaskRuns) /\ WF_loads(ImageSettles)

FairSpec == Init /\ [][Next]_vars /\ Scheduling

\* img.onload when recomputeWorldDerived throws (lines 200-205): _world is
\* already assigned at line 200, the catch rejects the promise, the catch
\* of lines 215-218 clears _worldBasePromise and the callers' catch
\* callbacks become microtasks
LoadRecomputeThrows ==
    /\ loads > 0
    /\ worldBasePromise = "pending"
    /\ microtasks = <<>>
    /\ \E point \in FaultPoints :
         world' = Some(recomputeThrowsAt(
                           buildWorldContext(image.data, image.width, image.height,
                                             thisParams),
                           thisParams, point))
    /\ recomputes' = 0
    /\ loads' = loads - 1
    /\ worldBasePromise' = "null"
    /\ microtasks' = Settled(FALSE)
    /\ waiting' = <<>>
    /\ draining' = TRUE
    /\ UNCHANGED <<image, thisParams, tiles>>
    /\ UNCHANGED searchVars

\* the then-callback of setParams when recomputeWorldDerived throws (line
\* 1062): the repaint is skipped and the catch of lines 1065-1068 logs
RecomputeThrows ==
    /\ microtasks # <<>>
    /\ Head(microtasks).kind = "params"
    /\ Head(microtasks).ok
    /\ \E point \in FaultPoints :
         \E w \in {recomputeThrowsAt(world[1], thisParams, point)} :
            /\ world' = Some(w)
            /\ tiles' = Outdated(tiles, w # world[1])
    /\ recomputes' = 0
    /\ Dequeue
    /\ UNCHANGED <<image, thisParams, worldBasePromise, waiting, loads>>
    /\ UNCHANGED searchVars

\* the layer when the allocations of a recompute can fail
FaultNext ==
    \/ CreateTile
    \/ SetSeaAndIce
    \/ LoadSucceeds
    \/ LoadFails
    \/ RecomputeAndRepaint
    \/ ReportLoadFailure
    \/ PaintTile
    \/ FailTile
    \/ LoadRecomputeThrows
    \/ RecomputeThrows

FaultSpec == Init /\ [][FaultNext]_vars

\* setParams called while no world is loaded: the call starts the raster
\* load or joins the load in flight
SetParamsBeforeLoaded == world = None /\ SetParams

\* the layer when the page changes parameters only until the raster is
\* there, the allocations of a recompute failing or not
LoadingNext ==
    \/ CreateTile
    \/ SetParamsBeforeLoaded
    \/ LoadSucceeds
    \/ LoadFails
    \/ RecomputeAndRepaint
    \/ ReportLoadFailure
    \/ PaintTile
    \/ FailTile
    \/ LoadRecomputeThrows
    \/ RecomputeThrows

LoadingSpec == Init /\ [][LoadingNext]_vars

\* the layer with failing allocations under the browser's scheduling
FairFaultSpec == Init /\ [][FaultNext]_vars /\ Scheduling

\* getInfoAtPoint(latlng) (lines 1104-1194) for a point that falls on cell
\* p of a map that exists: null without a world, else the fields of p
getInfoAtPoint(p) ==
    IF world = None THEN None
    ELSE Some([isLand |-> world[1].derived.isLandMask[p],
               heightAboveSea |-> world[1].derived.heightAboveSea[p],
               moistureAvailability |-> world[1].derived.moistureAvailability[p],
               continentalValue |-> world[1].derived.continentalValue[p],
               sstByLatitude |-> world[1].derived.sstByLatitude[p],
               ice |-> world[1].derived.iceMask[p] > 0,
               outputs |-> world[1].outputs[p]])

\* the layer driven by the thermal sliders
ThermalNext ==
    \/ CreateTile
    \/ SetThermalParams
    \/ LoadSucceeds
    \/ LoadFails
    \/ RecomputeAndRepaint
    \/ ReportLoadFailure
    \/ PaintTile
    \/ FailTile

ThermalSpec == Init /\ [][ThermalNext]_vars

\* ------------------------------------------------ properties of the layer
Loaded == world # None

\* every registered callback has run
Quiescent == Loaded /\ waiting = <<>> /\ microtasks = <<>>

\* a fresh computation from the raster and the current parameter record
FreshWorld ==
    recomputeWorldDerived(
        buildWorldContext(image.data, image.width, image.height, thisParams),
        thisParams)

WorldCells == 0..(image.width * image.height - 1)

\* C7: after any sequence of setParams calls on a loaded world, once their
\* callbacks have run, every derived per-cell field (the derived bank and all
\* thermal/ice outputs, coldFraction and warmFraction included) equals the
\* value a fresh computation from the raster and the final parameter record
\* gives.
C7_DerivedFieldsAreFresh ==
    Quiescent => /\ world[1].derived = FreshWorld.derived
                 /\ world[1].outputs = FreshWorld.outputs

\* the thermal/ice outputs named by the ocean rule
ThermalOutputs ==
    {"T_lat", "T_elev", "dT_global", "T_mean", "T_season", "T_cont", "Tw", "Ts",
     "coldFraction", "warmFraction", "accum", "melt", "iceLeft"}

\* C8: after every recompute, every cell that is ocean under the current
\* parameters has all thermal/ice outputs equal to 0 and iceMask 0, also
\* when it was land under an earlier parameter record.
C8_OceanOutputsZero ==
    (Loaded /\ recomputes >= 1) =>
        \A p \in WorldCells :
            world[1].derived.isLandMask[p] = 0 =>
                /\ \A f \in ThermalOutputs : world[1].outputs[p][f] = 0
                /\ world[1].derived.iceMask[p] = 0

\* C9: when recomputeWorldDerived has run on the current parameter record,
\* running it again on the same raster and the same record leaves every
\* derived field (and every output) as it is.
C9_RecomputeIdempotent ==
    (Loaded /\ recomputes >= 1) =>
        recomputeWorldDerived(world[1], thisParams) = world[1]

\* two recomputes ran in a row on a changed parameter record, on a raster
\* with land and ocean
C9_Witness ==
    /\ Loaded
    /\ recomputes = 2
    /\ thisParams # InitialParams
    /\ \E p, q \in WorldCells : /\ world[1].derived.isLandMask[p] = 1
                                /\ world[1].derived.isLandMask[q] = 0

\* sea levels probed: the ends of 0..255 and the neighbours of the raster's
\* elevations and of the initial sea level
SeaLevelProbe == {0, 1, 99, 100, 101, 142, 143, 199, 200, 201, 254, 255}

\* the first two stages run on the loaded world with seaLevel = s
MaskAt(s) ==
    colorPixelsBySeaLevel_global(
        deriveEffectiveSeaLevel_global(
            [world[1] EXCEPT !.params = [thisParams EXCEPT !.seaLevel = s]])).derived

\* the probed sea levels, each with the bank its two stages give
ProbedMasks == { <<s, MaskAt(s)>> : s \in SeaLevelProbe }

\* C10: for the iceLevel in [0,1] and seaLevelDropDueToIce >= 0 of the
\* parameter record and any sea levels s1 < s2 in [0,255], the effective sea
\* level at s1 is at most the one at s2 and every cell that is ocean at s1
\* is ocean at s2.
C10_SeaLevelMonotone ==
    (/\ Loaded
     /\ thisParams.iceLevel \in 0..Hundred
     /\ thisParams.seaLevelDropDueToIce >= 0) =>
        \A a, b \in ProbedMasks :
            a[1] < b[1] =>
                /\ a[2].effectiveSeaLevel <= b[2].effectiveSeaLevel
                /\ \A p \in WorldCells :
                       a[2].isLandMask[p] = 0 => b[2].isLandMask[p] = 0

\* ice lowers the sea, and between two probed levels the effective level
\* rises, one cell stays ocean and another turns from land to ocean
C10_Witness ==
    /\ Loaded
    /\ thisParams.iceLevel > 0
    /\ thisParams.seaLevelDropDueToIce > 0
    /\ \E a, b \in ProbedMasks :
         /\ a[1] < b[1]
         /\ a[2].effectiveSeaLevel < b[2].effectiveSeaLevel
         /\ \E p, q \in WorldCells :
              /\ a[2].isLandMask[p] = 0
              /\ a[2].isLandMask[q] = 1
              /\ b[2].isLandMask[q] = 0

\* the first two stages run on the loaded world with the parameters P
StagesOneTwo(P) ==
    colorPixelsBySeaLevel_global(
        deriveEffectiveSeaLevel_global([world[1] EXCEPT !.params = P])).derived

\* clamp(x, 0, 255) on values in 1/E4
Clamp255(x) == IF x < 0 THEN 0 ELSE IF x > 255 * E4 THEN 255 * E4 ELSE x

\* C11: after the land-mask stage, for every cell p, isLand[p] is true
\* exactly when elevation[p] >= effectiveSeaLevel, heightAboveSea[p] is
\* clamp(elevation[p] - effectiveSeaLevel, 0, 255) on land and 0 on ocean;
\* with seaLevel = 128 (and at a sea level equal to a cell's elevation) and
\* no ice the mask is elevation >= seaLevel.
C11_MaskAndHeightExact ==
    (Loaded /\ recomputes >= 1) =>
        /\ \A p \in WorldCells :
              LET e   == image.data[p] * E4
                  eff == world[1].derived.effectiveSeaLevel
              IN  /\ (world[1].derived.isLandMask[p] = 1) <=> (e >= eff)
                  /\ world[1].derived.heightAboveSea[p] * E4 =
                         (IF e >= eff THEN Clamp255(e - eff) ELSE 0)
        /\ \A s \in {100, 128, 200} : \A p \in WorldCells :
              (StagesOneTwo([thisParams EXCEPT !.seaLevel = s, !.iceLevel = 0,
                                               !.seaLevelDropDueToIce = 0]
                           ).isLandMask[p] = 1) <=> (image.data[p] >= s)

\* parameter values beyond the sliders of the page: sea levels outside
\* 0..255, ice levels and drops that are negative or whose product exceeds 1
SeaLevelRange == {-10, 142, 300}
IceLevelRange == {-50, 33, 150}
DropRange == {-100, 5, 200}

\* the effective sea level the first stage stores for each probed record
ProbedLevels ==
    { <<s, i, d,
        deriveEffectiveSeaLevel_global(
            [world[1] EXCEPT !.params = [thisParams EXCEPT
                !.seaLevel = s, !.iceLevel = i, !.seaLevelDropDueToIce = d]]
        ).derived.effectiveSeaLevel>>
      : s \in SeaLevelRange, i \in IceLevelRange, d \in DropRange }

\* C12: effectiveSeaLevel is clamp(seaLevel - iceLevel * seaLevel *
\* seaLevelDropDueToIce, 0, 255) for every parameter record, so it lies in
\* [0, 255] also when iceLevel * seaLevelDropDueToIce exceeds 1: in the
\* loaded world after a recompute, and for every probed record.
C12_EffectiveSeaLevelClamped ==
    Loaded =>
        /\ world[1].derived.effectiveSeaLevel \in 0..(255 * E4)
        /\ recomputes >= 1 =>
              world[1].derived.effectiveSeaLevel =
                  Clamp255(thisParams.seaLevel * E4
                           - thisParams.iceLevel * thisParams.seaLevel
                               * thisParams.seaLevelDropDueToIce)
        /\ \A t \in ProbedLevels :
              /\ t[4] \in 0..(255 * E4)
              /\ t[4] = Clamp255(t[1] * E4 - t[2] * t[1] * t[3])

\* a recompute ran with iceLevel * seaLevelDropDueToIce above 1 and a
\* positive sea level, and the stored level is the lower clamp
C12_Witness ==
    /\ Loaded
    /\ recomputes >= 1
    /\ thisParams.iceLevel * thisParams.seaLevelDropDueToIce > E4
    /\ thisParams.seaLevel > 0
    /\ world[1].derived.effectiveSeaLevel = 0
    /\ \E t \in ProbedLevels : t[1] * E4 - t[2] * t[1] * t[3] > 255 * E4

\* C13: after every recompute, every cell whose stored T_winter is >= 0 has
\* stored coldFraction 0 and stored ice supply 0, whatever its accumulation,
\* and is not marked in iceMask.
C13_WarmWinterNoIce ==
    (Loaded /\ recomputes >= 1) =>
        \A p \in WorldCells :
            world[1].outputs[p].Tw >= 0 =>
                /\ world[1].outputs[p].coldFraction = 0
                /\ world[1].outputs[p].iceSupply = 0
                /\ world[1].derived.iceMask[p] = 0

\* C14: after every recompute, iceMask[p] is set only if p is land under the
\* current effective sea level and its net ice is strictly positive, and on
\* land net ice > 0 implies that iceMask[p] is set.
C14_IceMaskIsLandWithNetIce ==
    (Loaded /\ recomputes >= 1) =>
        \A p \in WorldCells :
            (world[1].derived.iceMask[p] = 1) <=>
                (/\ image.data[p] * E4 >= world[1].derived.effectiveSeaLevel
                 /\ world[1].derived.isLandMask[p] = 1
                 /\ world[1].outputs[p].iceLeft > 0)

\* after a recompute a land cell has positive net ice and is marked, and an
\* ocean cell is unmarked
C14_Witness ==
    /\ Loaded
    /\ recomputes >= 1
    /\ \E p \in WorldCells : /\ world[1].derived.iceMask[p] = 1
                              /\ world[1].outputs[p].iceLeft > 0
    /\ \E p \in WorldCells : /\ world[1].derived.isLandMask[p] = 0
                              /\ world[1].derived.iceMask[p] = 0

\* C15: for a land cell whose denominator T_summer - T_winter is zero or not
\* above epsilon while T_winter < 0, no division by that denominator takes
\* effect: coldFraction is 0 and warmFraction is 0.
C15_ZeroDenominatorGivesZero ==
    (Loaded /\ recomputes >= 1) =>
        \A p \in WorldCells :
            (/\ world[1].derived.isLandMask[p] = 1
             /\ world[1].outputs[p].Ts - world[1].outputs[p].Tw <= 0
             /\ world[1].outputs[p].Tw < 0) =>
                /\ world[1].outputs[p].coldFraction = 0
                /\ world[1].outputs[p].warmFraction = 0

\* C16: continental01 of a land cell is clamp01((continentalValue *
\* continentalScale - coastalThreshold) / (1 - coastalThreshold)) with the
\* coastalThreshold of the parameter record, and T_seasonal is the value
\* that continental01 gives.
C16_ContinentalUsesCoastalThreshold ==
    (Loaded /\ recomputes >= 1) =>
        \A p \in WorldCells :
            world[1].derived.isLandMask[p] = 1 =>
                LET P   == thisParams
                    raw == (world[1].derived.continentalValue[p]
                              * P.continentalScale) \div Hundred
                    c01 == clamp01(((raw - P.coastalThreshold) * Scale)
                                      \div (Scale - P.coastalThreshold))
                IN  /\ world[1].outputs[p].continental01 = c01
                    /\ world[1].outputs[p].T_season =
                           (P.seasonalityStrength
                              * world[1].outputs[p].latitudeWeighting) \div Scale
                           + (P.continentalSeasonBoost * c01) \div Scale

\* C17: a raster load is started only when no world is loaded and no load
\* is in flight: the _ensureWorldBaseLoaded calls made before the load
\* settles share the one load in flight, and once a world is loaded no load
\* is started and the world stays the one built from that raster.
C17_OneLoadAtATime ==
    /\ [](/\ loads <= 1
          /\ Loaded => loads = 0
          /\ (loads = 1) <=> (worldBasePromise = "pending"))
    /\ [][loads' > loads =>
             (world = None /\ loads = 0 /\ worldBasePromise = "null")]_vars
    /\ [][Loaded => (world' # None /\ world'[1].inputs = world[1].inputs)]_vars

\* two callers wait on the one load in flight
C17_Witness ==
    /\ loads = 1
    /\ worldBasePromise = "pending"
    /\ Len(waiting) >= 2

\* C18: after a raster load is rejected, every caller that awaited it
\* observes the rejection, the cached promise is cleared and the next
\* _ensureWorldBaseLoaded call starts a fresh load (no world, no promise);
\* a load that then succeeds makes the layer ready.
C18_RejectedLoadIsRetried ==
    /\ [][(loads' < loads /\ worldBasePromise' # "fulfilled") =>
             (/\ Len(microtasks') = Len(waiting)
              /\ \A i \in 1..Len(microtasks') : ~microtasks'[i].ok
              /\ worldBasePromise' = "null"
              /\ world' = None)]_vars
    /\ [][(loads' < loads /\ worldBasePromise' = "fulfilled") =>
             (world' # None /\ recomputes' = 1)]_vars

\* C19: while no raster load has completed successfully, the layer is not
\* ready: getInfoAtPoint returns null and no _ensureWorldBaseLoaded call
\* resolves.
C19_NotReadyBeforeLoadCompletes ==
    worldBasePromise # "fulfilled" =>
        /\ \A p \in WorldCells : getInfoAtPoint(p) = None
        /\ \A i \in 1..Len(microtasks) : ~microtasks[i].ok

\* C20: a recompute that fails part-way leaves every derived field a query
\* can read as it was before the recompute started.
C20_FailedRecomputeKeepsBank ==
    [][RecomputeThrows =>
         (/\ world'[1].derived = world[1].derived
          /\ world'[1].outputs = world[1].outputs)]_vars

\* the then/catch callbacks of setParams in a queue
PendingRecomputes(q) == Cardinality({i \in 1..Len(q) : q[i].kind = "params"})

\* the four stages, in the order effective sea level, land mask,
\* continental field and moisture search, thermal/ice model, each on the
\* result of the one before
StagesInOrder(ctx) ==
    CHOOSE r \in {colorPixelsByIce_global(c3) : c3 \in {computeMoisture_global(c2) :
      c2 \in {colorPixelsBySeaLevel_global(c1) :
      c1 \in {deriveEffectiveSeaLevel_global(ctx)}}}} : TRUE

\* C21: on a loaded world every setParams call registers exactly one
\* callback and runs nothing itself; the callbacks run one at a time, each
\* as one recompute whose result is the four stages applied in the fixed
\* order to the bank under the current parameter record, after which no
\* painted tile shows an older bank; the bank changes in no other step; and
\* every registered callback runs.  So k calls give k full recomputes.
C21_OneRecomputePerSetParams ==
    /\ [][(Loaded /\ PendingRecomputes(microtasks') > PendingRecomputes(microtasks)) =>
             (/\ PendingRecomputes(microtasks') = PendingRecomputes(microtasks) + 1
              /\ world'[1].derived = world[1].derived
              /\ world'[1].outputs = world[1].outputs
              /\ tiles' = tiles)]_vars
    /\ [][(Loaded /\ PendingRecomputes(microtasks') < PendingRecomputes(microtasks)) =>
             (/\ PendingRecomputes(microtasks') = PendingRecomputes(microtasks) - 1
              /\ thisParams' = thisParams
              /\ world' = Some(StagesInOrder([world[1] EXCEPT !.params = thisParams]))
              /\ \A i \in TileIds : tiles'[i] # "stale")]_vars
    /\ [][(Loaded /\ (world'[1].derived # world[1].derived
                       \/ world'[1].outputs # world[1].outputs)) =>
             PendingRecomputes(microtasks') = PendingRecomputes(microtasks) - 1]_vars
    /\ (Loaded /\ PendingRecomputes(microtasks) > 0)
           ~> (PendingRecomputes(microtasks) = 0)

\* a tile is painted, two recomputes have run on the current parameter
\* record, which differs from the initial one, and the callback of a
\* further setParams call is queued
C21_Witness ==
    /\ Loaded
    /\ \E i \in TileIds : tiles[i] = "painted"
    /\ thisParams # InitialParams
    /\ recomputes = 2
    /\ PendingRecomputes(microtasks) = 1

\* ------------------------------------------- more properties of the search
Abs(x) == IF x < 0 THEN -x ELSE x

\* the number of steps of a shortest 4-connected path between two cells
GridDistance(p, q) ==
    Abs((p % width) - (q % width)) + Abs((p \div width) - (q \div width))

\* the 4-connected distance of a cell from the nearest ocean cell
CoastDistance(v) == SetMin({GridDistance(v, o) : o \in OceanCells})

\* no optional penalty is supplied
NoPenalties ==
    /\ params.coldMultiplier = None
    /\ params.elevationPenalty = None
    /\ params.directionPenalty = None
    /\ params.continentalPenalty = None

\* the stored moisture m1 of a cell of cost c1 is larger than the stored
\* moisture m2 of a cell of cost c2; the value 1 stands for every positive
\* float32 below one millionth, and two of those compare as their costs do
MoistureAbove(c1, m1, c2, m2) == m1 > m2 \/ (m1 = 1 /\ m2 = 1 /\ c1 < c2)

\* C22: with no optional penalties, every ocean cell of source strength 1
\* (or more) and a positive land step cost, the search returns cost 0 and
\* moisture exactly 1 on every ocean cell, cost d * landStepCost on a land
\* cell at 4-connected distance d from the nearest ocean cell, and a
\* moisture that strictly decreases with that distance.
C22_FlatCoastProfile ==
    (/\ pc = "done"
     /\ NoPenalties
     /\ OceanCells # {}
     /\ \A o \in OceanCells : clampSourceStrength(sourceStrength[o], eps) = Micro
     /\ baselineLandStep(params) > 0) =>
        /\ \A o \in OceanCells : search.cost[o] = 0 /\ moisture[o] = Micro
        /\ \A v \in LandCells :
               search.cost[v] = CoastDistance(v) * baselineLandStep(params)
        /\ \A u, v \in Cells :
               CoastDistance(u) < CoastDistance(v) =>
                   MoistureAbove(search.cost[u], moisture[u],
                                 search.cost[v], moisture[v])

\* the cells met when pathPredecessor is followed from v for at most n steps
RECURSIVE Chain(_, _)
Chain(v, n) ==
    IF search.prev[v] = -1 \/ n = 0 THEN {v}
    ELSE {v} \cup Chain(search.prev[v], n - 1)

\* the cells the search reached
Reached == {v \in Cells : search.cost[v] # Infinity}

\* C23: when the search returns, the chain of pathPredecessor from every
\* reached cell ends, after fewer steps than there are cells, in a cell
\* whose predecessor is -1; that cell is the pathSource of the cell the
\* chain started from, and every cell of the chain has that pathSource.
C23_ChainEndsAtSource ==
    pc = "done" =>
        \A v \in Reached :
            /\ \E r \in Chain(v, width * height - 1) :
                   /\ search.prev[r] = -1
                   /\ r = search.src[v]
            /\ \A c \in Chain(v, width * height - 1) : search.src[c] = search.src[v]

\* a finished search with a chain of two steps whose source is farther
\* from the cell than the nearest ocean cell
C23_Witness ==
    /\ pc = "done"
    /\ \E v \in Reached :
          /\ search.prev[v] # -1
          /\ search.prev[search.prev[v]] # -1
          /\ GridDistance(v, search.src[v]) > CoastDistance(v)

\* values a coldMultiplier callback is probed with: negative, 0, below 1,
\* 1, above 1
ColdProbe == {-2000, 0, 500, 1000, 2500}

\* values an elevationPenalty or directionPenalty callback is probed with
PenaltyProbe == {-3000, -1, 0, 700}

\* the parameter record with callbacks that return c, e and w on every call
ProbeParams(c, e, w) ==
    [params EXCEPT
        !.coldMultiplier = Some([v \in Cells |-> c]),
        !.elevationPenalty = Some([a \in StepArgs(width * height) |-> e]),
        !.directionPenalty = Some([a \in StepArgs(width * height) |-> w])]

\* the base cost of a step into v (lines 134-135)
BaseCost(v) == IF isLand[v] = 0 THEN oceanStepCost ELSE baselineLandStep(params)

\* the probed step costs depend on the raster and the base cost only: they
\* are taken once for each, on the record without callbacks and the
\* raster without evaporation
ProbedOnce == NoPenalties /\ \A p \in Cells : sourceStrength[p] = 0

\* C24: for every step of the grid, with the callbacks of the parameter
\* record and with callbacks returning any of the probed values, the step
\* cost is never negative and never below the base cost of the step, and
\* it is the step cost obtained when a coldMultiplier below 1 is replaced
\* by 1 and a negative elevationPenalty or directionPenalty by 0.
C24_PenaltiesCannotLowerStep ==
    pc = "done" =>
        \A a \in GridSteps(width, height) :
            /\ stepCostTo(isLand, params, a[1], a[2], a[3]) >= 0
            /\ stepCostTo(isLand, params, a[1], a[2], a[3]) >= BaseCost(a[2])
            /\ ProbedOnce =>
                 \A c \in ColdProbe, e \in PenaltyProbe, w \in PenaltyProbe :
                   /\ stepCostTo(isLand, ProbeParams(c, e, w), a[1], a[2], a[3]) >= 0
                   /\ stepCostTo(isLand, ProbeParams(c, e, w), a[1], a[2], a[3])
                          >= BaseCost(a[2])
                   /\ stepCostTo(isLand, ProbeParams(c, e, w), a[1], a[2], a[3])
                          = stepCostTo(isLand,
                                       ProbeParams(Max2(c, Scale), Max2(e, 0), Max2(w, 0)),
                                       a[1], a[2], a[3])

\* the search returned a cell reached by a step on which the coldMultiplier
\* callback returned less than 1 and the elevationPenalty callback a
\* negative value, and the step was charged the base cost and the wind
C24_Witness ==
    /\ pc = "done"
    /\ params.coldMultiplier # None
    /\ params.elevationPenalty # None
    /\ \E v \in Reached :
          /\ search.prev[v] # -1
          /\ params.coldMultiplier[1][v] < Scale
          /\ params.elevationPenalty[1][<<search.prev[v], v, DirOf(search.prev[v], v)>>] < 0
          /\ BaseCost(v) > 0
          /\ search.cost[v] >= search.cost[search.prev[v]] + BaseCost(v)

\* ------------------------------------------------- more properties of the layer
\* done has been called for a tile canvas
Completed(t) == t \in {"painted", "stale", "failed"}

\* the tiles whose callbacks are in a queue
TilesIn(q) == {q[j].tile : j \in {k \in 1..Len(q) : q[k].kind = "tile"}}

\* C25: every tile created with a 2D context is completed: done is called
\* for it, once (a completed tile is not completed again and keeps its
\* outcome), by its own callback; it is called without error, after the
\* tile was painted, only when the raster load has succeeded, and with the
\* error only when no load has succeeded; and when the load settles, the
\* callbacks of all the tiles waiting for it are queued with its outcome.
C25_EveryTileCompletes ==
    /\ \A i \in TileIds : (tiles[i] = "pending") ~> Completed(tiles[i])
    /\ [][\A i \in TileIds :
             /\ (tiles[i] = "pending" /\ tiles'[i] # "pending") =>
                    (/\ tiles'[i] \in {"painted", "failed"}
                     /\ microtasks # <<>>
                     /\ Head(microtasks).kind = "tile"
                     /\ Head(microtasks).tile = i
                     /\ microtasks' = Tail(microtasks))
             /\ Completed(tiles[i]) =>
                    (/\ Completed(tiles'[i])
                     /\ (tiles[i] = "failed") <=> (tiles'[i] = "failed"))]_vars
    /\ [][\A i \in TileIds :
             /\ (tiles[i] = "pending" /\ tiles'[i] = "painted") =>
                    (Loaded /\ worldBasePromise = "fulfilled")
             /\ (tiles[i] = "pending" /\ tiles'[i] = "failed") =>
                    worldBasePromise # "fulfilled"]_vars
    /\ [][loads' < loads =>
             (/\ TilesIn(microtasks') = TilesIn(waiting)
              /\ waiting' = <<>>
              /\ \A j \in 1..Len(microtasks') :
                    microtasks'[j].ok = (worldBasePromise' = "fulfilled"))]_vars

\* C26: no cell is expanded twice; every expanded cell still has the cost
\* that was the key of its expanded entry, and the predecessor and source
\* it had then; and a popped entry whose key exceeds its cell's cost is
\* removed without any change to cost, predecessor, source or the rest of
\* the heap.
C26_ExpandedAtMostOnce ==
    /\ [](/\ \A i, j \in 1..Len(expanded) :
                expanded[i].node = expanded[j].node => i = j
          /\ \A i \in 1..Len(expanded) :
                /\ search.cost[expanded[i].node] = expanded[i].key
                /\ search.prev[expanded[i].node] = expanded[i].prev
                /\ search.src[expanded[i].node] = expanded[i].src)
    /\ [][(/\ pc = "loop"
           /\ size(search.heap) > 0
           /\ pop(search.heap).key > search.cost[pop(search.heap).node]) =>
             (/\ search' = [search EXCEPT !.heap = pop(search.heap).heap]
              /\ expanded' = expanded)]_vars

\* the search returned after every cell was expanded, one of them an ocean
\* cell that was relaxed below its seed, whose seed entry was popped stale
C26_Witness ==
    /\ pc = "done"
    /\ Len(expanded) = width * height
    /\ \E p \in OceanCells : search.cost[p] < SeedCost(p)

\* ------------------------------------------------- properties of MinHeapPair
\* how often the pair pr = <<node, key>> is stored in the heap h
Count(h, pr) ==
    Cardinality({i \in 1..Len(h.nodes) : h.nodes[i] = pr[1] /\ h.keys[i] = pr[2]})

\* C27: under any pushes and pops, the nodes and keys arrays have the same
\* length and every parent key is <= the keys of its children; a push adds
\* one pair and keeps all others; a pop on the empty heap returns null and
\* changes nothing; a pop on a non-empty heap does not return null, returns
\* a stored pair whose key is the smallest stored key, and removes one copy
\* of that pair and nothing else.
C27_HeapInvariants ==
    /\ [](/\ Len(search.heap.nodes) = Len(search.heap.keys)
          /\ \A i \in 2..Len(search.heap.keys) :
                search.heap.keys[i \div 2] <= search.heap.keys[i])
    /\ [][size(search'.heap) > size(search.heap) =>
             \E pr \in HeapNodes \X HeapKeys :
                \A q \in HeapNodes \X HeapKeys :
                   Count(search'.heap, q)
                      = Count(search.heap, q) + (IF q = pr THEN 1 ELSE 0)]_vars
    /\ [][size(search'.heap) <= size(search.heap) =>
             IF size(search.heap) = 0
             THEN popped'[1].isNull /\ search'.heap = search.heap
             ELSE /\ ~popped'[1].isNull
                  /\ \A i \in 1..Len(search.heap.keys) :
                        popped'[1].key <= search.heap.keys[i]
                  /\ Count(search.heap, <<popped'[1].node, popped'[1].key>>) > 0
                  /\ \A q \in HeapNodes \X HeapKeys :
                        Count(search'.heap, q)
                           = Count(search.heap, q)
                             - (IF q = <<popped'[1].node, popped'[1].key>>
                                THEN 1 ELSE 0)]_vars

\* a pop has returned a pair from a heap that still holds three entries,
\* two of them with the same key, and is not sorted as an array
C27_Witness ==
    /\ pc = "heap"
    /\ popped # None
    /\ ~popped[1].isNull
    /\ size(search.heap) = 3
    /\ \E i, j \in 1..3 : i # j /\ search.heap.keys[i] = search.heap.keys[j]
    /\ search.heap.keys[2] > search.heap.keys[3]

\* C28: when the search returns, the predecessor u of every cell v that has
\* one is the west, east, north or south neighbour of v inside the grid
\* (same row and adjacent column, or same column and adjacent row), the
\* cost of v is the cost of u plus the step cost from u to v, and the cost
\* of u is at most the cost of v.
C28_PredecessorIsNeighbour ==
    pc = "done" =>
        \A v \in Cells :
            search.prev[v] # -1 =>
                /\ search.prev[v] \in Cells
                /\ \/ /\ search.prev[v] \div width = v \div width
                      /\ Abs((search.prev[v] % width) - (v % width)) = 1
                   \/ /\ search.prev[v] % width = v % width
                      /\ Abs((search.prev[v] \div width) - (v \div width)) = 1
                /\ \E d \in Dir4 :
                      /\ <<search.prev[v], v, d>> \in GridSteps(width, height)
                      /\ search.cost[v] = search.cost[search.prev[v]]
                            + stepCostTo(isLand, params, search.prev[v], v, d)
                /\ search.cost[search.prev[v]] <= search.cost[v]

\* the search returned on a 2 x 2 raster with a cell reached from its north
\* neighbour and a cell reached from its east neighbour
C28_Witness ==
    /\ pc = "done"
    /\ width = 2
    /\ height = 2
    /\ \E v \in Cells : search.prev[v] = v - width
    /\ \E v \in Cells : search.prev[v] = v + 1 /\ v % width = 0

\* C29: a setParams call made before the raster has loaded merges its
\* partial record into this.params at once, and this.params changes in no
\* other step (a failed load keeps it); the load that succeeds builds the
\* world from the raster and the merged record and queues the callback of
\* every such call, each of which runs a recompute of its own on that
\* record; so from the moment the load has succeeded, and after all
\* callbacks have run, every derived field is the one a fresh computation
\* from the raster and the merged record gives.
C29_ParamsMergedDuringLoad ==
    /\ [](worldBasePromise = "fulfilled" =>
             /\ world[1].params = thisParams
             /\ world[1].derived = FreshWorld.derived
             /\ world[1].outputs = FreshWorld.outputs)
    /\ [][(~Loaded /\ PendingRecomputes(waiting') > PendingRecomputes(waiting)) =>
             \E partial \in ParamUpdates :
                thisParams' = [f \in DOMAIN thisParams |->
                                  IF f \in DOMAIN partial THEN partial[f]
                                  ELSE thisParams[f]]]_vars
    /\ [][thisParams' # thisParams =>
             PendingRecomputes(waiting') = PendingRecomputes(waiting) + 1]_vars
    /\ [][loads' < loads =>
             (/\ thisParams' = thisParams
              /\ worldBasePromise' = "fulfilled" =>
                    (/\ world' = Some(FreshWorld)
                     /\ PendingRecomputes(microtasks') = PendingRecomputes(waiting)
                     /\ \A j \in 1..Len(microtasks') : microtasks'[j].ok))]_vars
    /\ [][(PendingRecomputes(microtasks') < PendingRecomputes(microtasks)
             /\ Head(microtasks).ok) =>
             world' = Some(StagesInOrder([world[1] EXCEPT !.params = thisParams]))]_vars

\* a load failed under a tile and a setParams call; a later call started the
\* load that succeeded; its callback has run and the record in use merges
\* the partial records of both calls
C29_Witness ==
    /\ Quiescent
    /\ \E i \in TileIds : tiles[i] = "failed"
    /\ recomputes = 2
    /\ thisParams.seaLevel # InitialParams.seaLevel
    /\ thisParams.iceLevel # InitialParams.iceLevel


\* ------------------------------------------------ termination of the search
\* the cells whose cost is lower in c2 than in c1
Lowered(c1, c2) == {v \in DOMAIN c1 : c2[v] < c1[v]}

\* C30: the search terminates on every grid and every choice of penalties:
\* it reaches its return; and in every iteration of the main loop no cost
\* rises, no cost drops below the popped key (step costs are not negative),
\* and the heap loses the popped entry and gains exactly one entry for each
\* cell whose cost strictly decreased.
C30_SearchTerminates ==
    /\ <>(pc = "done")
    /\ [][(pc = "loop" /\ size(search.heap) > 0) =>
            (/\ \A v \in DOMAIN search.cost : search'.cost[v] <= search.cost[v]
             /\ \A v \in Lowered(search.cost, search'.cost) :
                   search'.cost[v] >= pop(search.heap).key
             /\ size(search'.heap) =
                   size(search.heap) - 1
                     + Cardinality(Lowered(search.cost, search'.cost)))]_vars

\* the search returned on a raster where a land cell was reached by a step
\* of cost zero and two cells tie in cost
C30_Witness ==
    /\ pc = "done"
    /\ \E v \in DOMAIN search.cost :
          /\ isLand[v] # 0
          /\ search.prev[v] >= 0
          /\ search.cost[v] = search.cost[search.prev[v]]
          /\ search.cost[v] < Infinity
    /\ \E v, w \in DOMAIN search.cost :
          v # w /\ search.prev[v] # w /\ search.prev[w] # v
          /\ search.cost[v] = search.cost[w] /\ search.cost[v] < Infinity

=============================================================================
